---------------------------- MODULE Spec2Model ----------------------------
(***************************************************************************)
(* A model of the UBL invoice pipeline of @ingram-tech/ubl:                *)
(*   XML tree -> parseUblInvoice -> UblInvoice -> normalizeUblResponse     *)
(*            -> { extracted (DTO), rawPayload }.                          *)
(*                                                                         *)
(* Representation.                                                         *)
(*  - A text is a sequence of one-character strings ("" is << >>).         *)
(*  - An optional value (T | undefined, T | null) is None or Some(v).      *)
(*  - A number is an integer count of hundredths (Scale = 100): the text   *)
(*    "18.9" parses to 1890.  Non-finite numbers are not modelled.         *)
(*  - An XML element is a record [ns, tag, attrs, text, kids]; ns is "cbc" *)
(*    or "cac" for the two UBL component namespaces and "doc" otherwise.   *)
(***************************************************************************)
EXTENDS Integers, Sequences, FiniteSets, TLC

VARIABLES
    xml,     \* the XML text the caller holds: [bom, wellFormed, root]
    call,    \* the last call made on it: [op, documentId, mimeType, bom]
    outcome  \* what that call ended with: [threw, message, value]

vars == <<xml, call, outcome>>

---------------------------------------------------------------------------
(* Optional values *)

None == << >>

Some(v) == <<v>>

IsSome(o) == o # None

Val(o) == o[1]

\* a ?? b
Coalesce(a, b) == IF IsSome(a) THEN a ELSE b

---------------------------------------------------------------------------
(* Texts *)

Scale == 100

WhiteSpace == {" ", "\n", "\t"}

Digits == <<"0", "1", "2", "3", "4", "5", "6", "7", "8", "9">>

LowerLetters ==
    <<"a", "b", "c", "d", "e", "f", "g", "h", "i", "j", "k", "l", "m",
      "n", "o", "p", "q", "r", "s", "t", "u", "v", "w", "x", "y", "z">>

UpperLetters ==
    <<"A", "B", "C", "D", "E", "F", "G", "H", "I", "J", "K", "L", "M",
      "N", "O", "P", "Q", "R", "S", "T", "U", "V", "W", "X", "Y", "Z">>

IndexIn(c, letters) ==
    IF \E i \in DOMAIN letters : letters[i] = c
    THEN CHOOSE i \in DOMAIN letters : letters[i] = c
    ELSE 0

\* String.prototype.toUpperCase, character by character
toUpperCase(t) ==
    [i \in DOMAIN t |->
        IF IndexIn(t[i], LowerLetters) # 0
        THEN UpperLetters[IndexIn(t[i], LowerLetters)]
        ELSE t[i]]

\* String.prototype.toLowerCase, character by character
toLowerCase(t) ==
    [i \in DOMAIN t |->
        IF IndexIn(t[i], UpperLetters) # 0
        THEN LowerLetters[IndexIn(t[i], UpperLetters)]
        ELSE t[i]]

RECURSIVE TrimStart(_)
TrimStart(t) ==
    IF t # << >> /\ Head(t) \in WhiteSpace THEN TrimStart(Tail(t)) ELSE t

RECURSIVE TrimEnd(_)
TrimEnd(t) ==
    IF t # << >> /\ t[Len(t)] \in WhiteSpace
    THEN TrimEnd(SubSeq(t, 1, Len(t) - 1))
    ELSE t

\* String.prototype.trim
trim(t) == TrimEnd(TrimStart(t))

\* String.prototype.endsWith
endsWith(t, suffix) ==
    /\ Len(t) >= Len(suffix)
    /\ SubSeq(t, Len(t) - Len(suffix) + 1, Len(t)) = suffix

\* content.replace(/\s+/g, "")
StripWhiteSpace(t) == SelectSeq(t, LAMBDA c : c \notin WhiteSpace)

RECURSIVE JoinWith(_, _)
\* Array.prototype.join
JoinWith(parts, sep) ==
    IF parts = << >> THEN << >>
    ELSE IF Len(parts) = 1 THEN Head(parts)
    ELSE Head(parts) \o sep \o JoinWith(Tail(parts), sep)

---------------------------------------------------------------------------
(* Numbers: Number.parseFloat on a text, in hundredths *)

DigitValue(c) == IndexIn(c, Digits) - 1

IsDigit(c) == IndexIn(c, Digits) # 0

RECURSIVE DigitPrefix(_)
\* the longest prefix of t made of digits
DigitPrefix(t) ==
    IF t # << >> /\ IsDigit(Head(t))
    THEN <<Head(t)>> \o DigitPrefix(Tail(t))
    ELSE << >>

RECURSIVE DigitsValue(_)
DigitsValue(ds) ==
    IF ds = << >> THEN 0
    ELSE DigitsValue(SubSeq(ds, 1, Len(ds) - 1)) * 10 + DigitValue(ds[Len(ds)])

\* the first two fraction digits, as hundredths
FractionValue(ds) ==
    (IF Len(ds) >= 1 THEN DigitValue(ds[1]) * 10 ELSE 0)
    + (IF Len(ds) >= 2 THEN DigitValue(ds[2]) ELSE 0)

\* Number.parseFloat: leading white space, a sign, digits, a fraction; what
\* follows the longest numeric prefix is ignored; None stands for NaN.
parseFloat(text) ==
    LET t == TrimStart(text)
        negative == t # << >> /\ Head(t) = "-"
        signed == t # << >> /\ Head(t) \in {"-", "+"}
        body == IF signed THEN Tail(t) ELSE t
        int == DigitPrefix(body)
        rest == SubSeq(body, Len(int) + 1, Len(body))
        frac == IF rest # << >> /\ Head(rest) = "."
                THEN DigitPrefix(Tail(rest))
                ELSE << >>
        magnitude == DigitsValue(int) * Scale + FractionValue(frac)
    IN  IF int = << >> /\ frac = << >> THEN None
        ELSE Some(IF negative THEN 0 - magnitude ELSE magnitude)

\* Math.abs
Abs(n) == IF n < 0 THEN 0 - n ELSE n

\* num / den rounded to the nearest integer, halves away from zero
RoundDiv(num, den) ==
    IF num >= 0 THEN (2 * num + den) \div (2 * den)
    ELSE 0 - ((2 * (0 - num) + den) \div (2 * den))

RECURSIVE SumSeq(_)
SumSeq(ns) == IF ns = << >> THEN 0 ELSE Head(ns) + SumSeq(Tail(ns))

---------------------------------------------------------------------------
(* XML trees and the DOM helpers of the parser *)

CBC_NS == "cbc"

CAC_NS == "cac"

\* a leaf of the Basic Components namespace: <cbc:tag>text</cbc:tag>
Cbc(tag, text) ==
    [ns |-> CBC_NS, tag |-> tag, attrs |-> {}, text |-> text, kids |-> << >>]

\* an aggregate of the Aggregate Components namespace
Cac(tag, kids) ==
    [ns |-> CAC_NS, tag |-> tag, attrs |-> {}, text |-> << >>, kids |-> kids]

\* the document element
RootElement(tag, kids) ==
    [ns |-> "doc", tag |-> tag, attrs |-> {}, text |-> << >>, kids |-> kids]

RECURSIVE DescendantsOf(_)
\* the elements below a list of siblings, in document order
DescendantsOf(kids) ==
    IF kids = << >> THEN << >>
    ELSE <<Head(kids)>> \o DescendantsOf(Head(kids).kids)
            \o DescendantsOf(Tail(kids))

\* Element.getElementsByTagNameNS: every descendant, in document order
getElementsByTagNameNS(parent, namespace, tag) ==
    SelectSeq(DescendantsOf(parent.kids),
              LAMBDA e : e.ns = namespace /\ e.tag = tag)

RECURSIVE TextOfList(_)
TextOfList(kids) ==
    IF kids = << >> THEN << >>
    ELSE Head(kids).text \o TextOfList(Head(kids).kids)
            \o TextOfList(Tail(kids))

\* Node.textContent: the element's text and that of its descendants
textContent(el) == el.text \o TextOfList(el.kids)

\* Element.getAttribute: None stands for null
getAttribute(el, name) ==
    IF \E a \in el.attrs : a[1] = name
    THEN Some((CHOOSE a \in el.attrs : a[1] = name)[2])
    ELSE None

\* list[0] ?? null
First(list) == IF list = << >> THEN None ELSE Some(Head(list))

cbcText(parent, tag) ==
    LET el == First(getElementsByTagNameNS(parent, CBC_NS, tag))
    IN  IF IsSome(el) THEN trim(textContent(Val(el))) ELSE << >>

cacElement(parent, tag) == First(getElementsByTagNameNS(parent, CAC_NS, tag))

cacElements(parent, tag) == getElementsByTagNameNS(parent, CAC_NS, tag)

\* cbcNumber that gives 1, not 0, for a text that is no number
cbcNumberOrOne(parent, tag) ==
    LET n == parseFloat(cbcText(parent, tag))
    IN  IF IsSome(n) THEN Val(n) ELSE Scale

cbcNumber(parent, tag) ==
    LET n == parseFloat(cbcText(parent, tag))
    IN  IF IsSome(n) THEN Val(n) ELSE 0

childElementsByTagNs(parent, namespace, tag) ==
    SelectSeq(parent.kids, LAMBDA e : e.ns = namespace /\ e.tag = tag)

cbcDirectText(parent, tag) ==
    LET el == First(childElementsByTagNs(parent, CBC_NS, tag))
    IN  IF IsSome(el) THEN trim(textContent(Val(el))) ELSE << >>

cbcDirectNumber(parent, tag) ==
    LET value == cbcDirectText(parent, tag)
    IN  IF value = << >> THEN None ELSE parseFloat(value)

cacDirectElement(parent, tag) == First(childElementsByTagNs(parent, CAC_NS, tag))

cacDirectElements(parent, tag) == childElementsByTagNs(parent, CAC_NS, tag)

\* text || undefined
OrUndefined(text) == IF text = << >> THEN None ELSE Some(text)

\* n || undefined, for a number
NumberOrUndefined(n) == IF n = 0 THEN None ELSE Some(n)

\* el ? cbcText(el, tag) || undefined : undefined
OptText(el, tag) == IF IsSome(el) THEN OrUndefined(cbcText(Val(el), tag)) ELSE None

---------------------------------------------------------------------------
(* Section parsers *)

parseAddressFromElement(address) ==
    IF ~IsSome(address) THEN None
    ELSE LET a == Val(address)
             country == cacElement(a, "Country")
         IN  Some([street |-> cbcText(a, "StreetName"),
                   additionalStreet |-> OrUndefined(cbcText(a, "AdditionalStreetName")),
                   city |-> cbcText(a, "CityName"),
                   postalZone |-> cbcText(a, "PostalZone"),
                   countrySubentity |-> OrUndefined(cbcText(a, "CountrySubentity")),
                   countryCode |-> IF IsSome(country)
                                   THEN cbcText(Val(country), "IdentificationCode")
                                   ELSE << >>])

parseAddress(party) == parseAddressFromElement(cacElement(party, "PostalAddress"))

parseTaxSchemeId(parent) ==
    IF ~IsSome(parent) THEN None
    ELSE OptText(cacElement(Val(parent), "TaxScheme"), "ID")

parseContact(party) ==
    LET contact == cacElement(party, "Contact")
        name == cbcText(Val(contact), "Name")
        phone == cbcText(Val(contact), "Telephone")
        email == cbcText(Val(contact), "ElectronicMail")
    IN  IF ~IsSome(contact) THEN None
        ELSE IF name = << >> /\ phone = << >> /\ email = << >> THEN None
        ELSE Some([name |-> OrUndefined(name),
                   phone |-> OrUndefined(phone),
                   email |-> OrUndefined(email)])

\* a placeholder without the name
UnnamedParty ==
    [name |-> << >>,
     registrationName |-> None, companyLegalForm |-> None, vatId |-> None,
     taxSchemeId |-> None, companyId |-> None, endpointId |-> None,
     endpointSchemeId |-> None, address |-> None, contact |-> None]

\* { name: "Unknown" }: every other field is undefined
UnknownParty ==
    [name |-> <<"U", "n", "k", "n", "o", "w", "n">>,
     registrationName |-> None, companyLegalForm |-> None, vatId |-> None,
     taxSchemeId |-> None, companyId |-> None, endpointId |-> None,
     endpointSchemeId |-> None, address |-> None, contact |-> None]

parseParty(root, role) ==
    LET wrapper == cacElement(root, role)
        party == IF IsSome(wrapper) THEN cacElement(Val(wrapper), "Party") ELSE None
        p == Val(party)
        partyName == cacElement(p, "PartyName")
        legalEntity == cacElement(p, "PartyLegalEntity")
        taxScheme == cacElement(p, "PartyTaxScheme")
        partyId == cacElement(p, "PartyIdentification")
        endpointEl == First(getElementsByTagNameNS(p, CBC_NS, "EndpointID"))
        schemeAttr == IF IsSome(endpointEl)
                      THEN getAttribute(Val(endpointEl), "schemeID")
                      ELSE None
    IN  IF ~IsSome(party) THEN UnknownParty
        ELSE [name |-> IF IsSome(partyName)
                       THEN cbcText(Val(partyName), "Name")
                       ELSE << >>,
              registrationName |-> OptText(legalEntity, "RegistrationName"),
              companyLegalForm |-> OptText(legalEntity, "CompanyLegalForm"),
              vatId |-> OptText(taxScheme, "CompanyID"),
              taxSchemeId |-> parseTaxSchemeId(taxScheme),
              companyId |-> IF IsSome(legalEntity)
                            THEN OptText(legalEntity, "CompanyID")
                            ELSE OptText(partyId, "ID"),
              endpointId |-> IF IsSome(endpointEl)
                             THEN OrUndefined(trim(textContent(Val(endpointEl))))
                             ELSE None,
              endpointSchemeId |-> IF IsSome(schemeAttr)
                                   THEN OrUndefined(Val(schemeAttr))
                                   ELSE None,
              address |-> parseAddress(p),
              contact |-> parseContact(p)]

parseTaxSubtotal(sub) ==
    LET cat == cacElement(sub, "TaxCategory")
    IN  [taxableAmount |-> cbcNumber(sub, "TaxableAmount"),
         taxAmount |-> cbcNumber(sub, "TaxAmount"),
         taxPercent |-> IF IsSome(cat) THEN cbcNumber(Val(cat), "Percent") ELSE 0,
         taxCategoryId |-> OptText(cat, "ID"),
         taxSchemeId |-> parseTaxSchemeId(cat),
         taxExemptionReason |-> OptText(cat, "TaxExemptionReason")]

parseTaxSubtotalsFromTaxTotal(taxTotal) ==
    LET subs == cacDirectElements(taxTotal, "TaxSubtotal")
    IN  [i \in 1..Len(subs) |-> parseTaxSubtotal(subs[i])]

RECURSIVE FlatMapTaxTotals(_)
\* taxTotals.flatMap(parseTaxSubtotalsFromTaxTotal)
FlatMapTaxTotals(taxTotals) ==
    IF taxTotals = << >> THEN << >>
    ELSE parseTaxSubtotalsFromTaxTotal(Head(taxTotals))
            \o FlatMapTaxTotals(Tail(taxTotals))

parseTaxSubtotals(root) ==
    LET taxTotals == cacDirectElements(root, "TaxTotal")
    IN  IF Len(taxTotals) = 0 THEN << >> ELSE FlatMapTaxTotals(taxTotals)

\* IsTrueText that does not take "1" for true
IsTrueWord(indicatorRaw) == indicatorRaw = <<"t", "r", "u", "e">>

\* indicatorRaw === "true" || indicatorRaw === "1"
IsTrueText(indicatorRaw) ==
    indicatorRaw = <<"t", "r", "u", "e">> \/ indicatorRaw = <<"1">>

parseAllowanceCharge(charge) ==
    LET taxCategory == cacElement(charge, "TaxCategory")
        indicatorRaw == toLowerCase(cbcDirectText(charge, "ChargeIndicator"))
    IN  [chargeIndicator |-> IsTrueText(indicatorRaw),
         amount |-> cbcNumber(charge, "Amount"),
         baseAmount |-> cbcDirectNumber(charge, "BaseAmount"),
         multiplierFactorNumeric |-> cbcDirectNumber(charge, "MultiplierFactorNumeric"),
         reason |-> OrUndefined(cbcText(charge, "AllowanceChargeReason")),
         reasonCode |-> OrUndefined(cbcText(charge, "AllowanceChargeReasonCode")),
         taxPercent |-> IF IsSome(taxCategory)
                        THEN Some(cbcNumber(Val(taxCategory), "Percent"))
                        ELSE None,
         taxCategoryId |-> OptText(taxCategory, "ID"),
         taxSchemeId |-> parseTaxSchemeId(taxCategory)]

\* parseAllowanceCharges that takes the AllowanceCharge elements at any depth
parseAllowanceChargesAnyDepth(parent) ==
    [i \in 1..Len(cacElements(parent, "AllowanceCharge")) |->
        parseAllowanceCharge(cacElements(parent, "AllowanceCharge")[i])]

parseAllowanceCharges(parent) ==
    LET charges == cacDirectElements(parent, "AllowanceCharge")
    IN  [i \in 1..Len(charges) |-> parseAllowanceCharge(charges[i])]

\* SumAbsByIndicator with the two indicators taken for each other
SumAbsByOtherIndicator(charges, chargeIndicator) ==
    SumSeq([i \in 1..Len(charges) |->
                IF charges[i].chargeIndicator # chargeIndicator
                THEN Abs(charges[i].amount)
                ELSE 0])

\* the sum of |amount| over the charges whose indicator is chargeIndicator
SumAbsByIndicator(charges, chargeIndicator) ==
    SumSeq([i \in 1..Len(charges) |->
                IF charges[i].chargeIndicator = chargeIndicator
                THEN Abs(charges[i].amount)
                ELSE 0])

\* Number(((lineExtensionAmount * taxPercent) / 100).toFixed(2))
computedTaxAmount(lineExtensionAmount, taxPercent) ==
    RoundDiv(lineExtensionAmount * taxPercent, 100 * Scale)

\* lineTaxAmount that takes the sum of the subtotals before the stated amount
lineTaxAmountSubtotalsFirst(taxAmountFromLineTotal, lineTaxSubtotals, lineExtensionAmount, taxPercent) ==
    IF Len(lineTaxSubtotals) > 0
    THEN Some(SumSeq([i \in 1..Len(lineTaxSubtotals) |-> lineTaxSubtotals[i].taxAmount]))
    ELSE IF IsSome(taxAmountFromLineTotal) THEN taxAmountFromLineTotal
    ELSE IF IsSome(taxPercent)
    THEN Some(computedTaxAmount(lineExtensionAmount, Val(taxPercent)))
    ELSE None

\* taxAmountFromLineTotal ?? (subtotals.length > 0 ? fromSubtotals : computed)
lineTaxAmount(taxAmountFromLineTotal, lineTaxSubtotals, lineExtensionAmount, taxPercent) ==
    IF IsSome(taxAmountFromLineTotal) THEN taxAmountFromLineTotal
    ELSE IF Len(lineTaxSubtotals) > 0
    THEN Some(SumSeq([i \in 1..Len(lineTaxSubtotals) |-> lineTaxSubtotals[i].taxAmount]))
    ELSE IF IsSome(taxPercent)
    THEN Some(computedTaxAmount(lineExtensionAmount, Val(taxPercent)))
    ELSE None

\* lineTaxSubtotals[0]?.taxPercent ?? (taxCategory ? cbcNumber(...) : undefined)
lineTaxPercent(lineTaxSubtotals, taxCategory) ==
    IF Len(lineTaxSubtotals) > 0 THEN Some(lineTaxSubtotals[1].taxPercent)
    ELSE IF IsSome(taxCategory) THEN Some(cbcNumber(Val(taxCategory), "Percent"))
    ELSE None

\* the line's record, given what the line's lookups found
buildLine(line, qtyTag, item, taxCategory, lineTaxSubtotals, taxAmountFromLineTotal, allowanceCharges) ==
    LET price == cacElement(line, "Price")
        sellersId == IF IsSome(item)
                     THEN cacElement(Val(item), "SellersItemIdentification")
                     ELSE None
        buyersId == IF IsSome(item)
                    THEN cacElement(Val(item), "BuyersItemIdentification")
                    ELSE None
        qtyEl == First(getElementsByTagNameNS(line, CBC_NS, qtyTag))
        lineExtensionAmount == cbcNumber(line, "LineExtensionAmount")
        taxPercent == lineTaxPercent(lineTaxSubtotals, taxCategory)
        discountAmount == SumAbsByIndicator(allowanceCharges, FALSE)
        chargeAmount == SumAbsByIndicator(allowanceCharges, TRUE)
    IN  [id |-> cbcText(line, "ID"),
         description |-> IF IsSome(item) THEN cbcText(Val(item), "Description") ELSE << >>,
         quantity |-> cbcNumber(line, qtyTag),
         unitCode |-> IF IsSome(qtyEl) /\ IsSome(getAttribute(Val(qtyEl), "unitCode"))
                      THEN Val(getAttribute(Val(qtyEl), "unitCode"))
                      ELSE << >>,
         unitPrice |-> IF IsSome(price) THEN cbcNumber(Val(price), "PriceAmount") ELSE 0,
         lineExtensionAmount |-> lineExtensionAmount,
         taxPercent |-> taxPercent,
         taxAmount |-> lineTaxAmount(taxAmountFromLineTotal, lineTaxSubtotals,
                                     lineExtensionAmount, taxPercent),
         taxCategoryId |-> IF Len(lineTaxSubtotals) > 0
                              /\ IsSome(lineTaxSubtotals[1].taxCategoryId)
                           THEN lineTaxSubtotals[1].taxCategoryId
                           ELSE OptText(taxCategory, "ID"),
         taxSchemeId |-> IF Len(lineTaxSubtotals) > 0
                            /\ IsSome(lineTaxSubtotals[1].taxSchemeId)
                         THEN lineTaxSubtotals[1].taxSchemeId
                         ELSE parseTaxSchemeId(taxCategory),
         taxSubtotals |-> IF Len(lineTaxSubtotals) > 0 THEN Some(lineTaxSubtotals) ELSE None,
         allowanceCharges |-> IF Len(allowanceCharges) > 0
                              THEN Some(allowanceCharges)
                              ELSE None,
         discountAmount |-> IF discountAmount > 0 THEN Some(discountAmount) ELSE None,
         chargeAmount |-> IF chargeAmount > 0 THEN Some(chargeAmount) ELSE None,
         itemName |-> OptText(item, "Name"),
         sellersItemId |-> OptText(sellersId, "ID"),
         buyersItemId |-> OptText(buyersId, "ID")]

\* the line's lookups that depend on its Item and on its own TaxTotal
lookupLine(line, qtyTag, item, lineTaxTotal) ==
    buildLine(line, qtyTag, item,
              IF IsSome(item) THEN cacElement(Val(item), "ClassifiedTaxCategory") ELSE None,
              IF IsSome(lineTaxTotal)
              THEN parseTaxSubtotalsFromTaxTotal(Val(lineTaxTotal))
              ELSE << >>,
              IF IsSome(lineTaxTotal)
              THEN cbcDirectNumber(Val(lineTaxTotal), "TaxAmount")
              ELSE None,
              parseAllowanceCharges(line))

parseLine(line, qtyTag) ==
    lookupLine(line, qtyTag, cacElement(line, "Item"), cacDirectElement(line, "TaxTotal"))

\* cacElements(root, lineTag).map(...)
mapLines(lines, qtyTag) == [i \in 1..Len(lines) |-> parseLine(lines[i], qtyTag)]

\* parseLines that looks for the invoice's quantity in a credit note's lines
parseLinesInvoicedQuantity(root, isCreditNote) ==
    mapLines(cacElements(root, IF isCreditNote THEN "CreditNoteLine" ELSE "InvoiceLine"),
             "InvoicedQuantity")

parseLines(root, isCreditNote) ==
    mapLines(cacElements(root, IF isCreditNote THEN "CreditNoteLine" ELSE "InvoiceLine"),
             IF isCreditNote THEN "CreditedQuantity" ELSE "InvoicedQuantity")

parseMonetaryTotal(root) ==
    LET total == cacDirectElement(root, "LegalMonetaryTotal")
        t == Val(total)
    IN  IF ~IsSome(total)
        THEN [lineExtensionAmount |-> 0, taxExclusiveAmount |-> 0,
              taxInclusiveAmount |-> 0, allowanceTotalAmount |-> None,
              chargeTotalAmount |-> None, prepaidAmount |-> None,
              payableRoundingAmount |-> None, payableAmount |-> 0]
        ELSE [lineExtensionAmount |-> cbcNumber(t, "LineExtensionAmount"),
              taxExclusiveAmount |-> cbcNumber(t, "TaxExclusiveAmount"),
              taxInclusiveAmount |-> cbcNumber(t, "TaxInclusiveAmount"),
              allowanceTotalAmount |-> NumberOrUndefined(cbcNumber(t, "AllowanceTotalAmount")),
              chargeTotalAmount |-> NumberOrUndefined(cbcNumber(t, "ChargeTotalAmount")),
              prepaidAmount |-> NumberOrUndefined(cbcNumber(t, "PrepaidAmount")),
              payableRoundingAmount |-> NumberOrUndefined(cbcNumber(t, "PayableRoundingAmount")),
              payableAmount |-> cbcNumber(t, "PayableAmount")]

parsePaymentMeansElement(pm) ==
    LET account == cacElement(pm, "PayeeFinancialAccount")
        branch == IF IsSome(account)
                  THEN cacElement(Val(account), "FinancialInstitutionBranch")
                  ELSE None
        paymentMeansCodeEl == First(getElementsByTagNameNS(pm, CBC_NS, "PaymentMeansCode"))
        nameAttr == IF IsSome(paymentMeansCodeEl)
                    THEN getAttribute(Val(paymentMeansCodeEl), "name")
                    ELSE None
    IN  [code |-> cbcText(pm, "PaymentMeansCode"),
         codeName |-> IF IsSome(nameAttr) THEN OrUndefined(Val(nameAttr)) ELSE None,
         paymentId |-> OrUndefined(cbcText(pm, "PaymentID")),
         iban |-> OptText(account, "ID"),
         bic |-> OptText(branch, "ID"),
         accountName |-> OptText(account, "Name")]

parsePaymentMeansList(root) ==
    LET pms == cacElements(root, "PaymentMeans")
        list == [i \in 1..Len(pms) |-> parsePaymentMeansElement(pms[i])]
    IN  IF Len(list) > 0 THEN Some(list) ELSE None

parseInvoicePeriod(root) ==
    LET period == cacElement(root, "InvoicePeriod")
        start == cbcText(Val(period), "StartDate")
        end == cbcText(Val(period), "EndDate")
    IN  IF ~IsSome(period) THEN None
        ELSE IF start = << >> /\ end = << >> THEN None
        ELSE Some([startDate |-> OrUndefined(start),
                   endDate |-> OrUndefined(end),
                   descriptionCode |-> OrUndefined(cbcText(Val(period), "DescriptionCode"))])

parseDelivery(root) ==
    LET delivery == cacElement(root, "Delivery")
        actualDeliveryDate == OrUndefined(cbcText(Val(delivery), "ActualDeliveryDate"))
        deliveryLocation == cacElement(Val(delivery), "DeliveryLocation")
        address == parseAddressFromElement(
                       IF IsSome(deliveryLocation)
                       THEN cacElement(Val(deliveryLocation), "Address")
                       ELSE None)
    IN  IF ~IsSome(delivery) THEN None
        ELSE IF ~IsSome(actualDeliveryDate) /\ ~IsSome(address) THEN None
        ELSE Some([actualDeliveryDate |-> actualDeliveryDate, address |-> address])

parsePaymentTermsNote(root) == OptText(cacElement(root, "PaymentTerms"), "Note")

\* parseNotes without the test that the parent of a Note is the root
parseNotesAnyDepth(root) ==
    LET noteEls == getElementsByTagNameNS(root, CBC_NS, "Note")
        texts == [i \in 1..Len(noteEls) |-> trim(textContent(noteEls[i]))]
        notes == SelectSeq(texts, LAMBDA t : t # << >>)
    IN  IF Len(notes) > 0 THEN Some(JoinWith(notes, <<"\n">>)) ELSE None

\* the cbc:Note elements whose parent is the root: of all the descendants
\* named Note, those that are children of the root, in document order
parseNotes(root) ==
    LET noteEls == childElementsByTagNs(root, CBC_NS, "Note")
        texts == [i \in 1..Len(noteEls) |-> trim(textContent(noteEls[i]))]
        notes == SelectSeq(texts, LAMBDA t : t # << >>)
    IN  IF Len(notes) > 0 THEN Some(JoinWith(notes, <<"\n">>)) ELSE None

\* one AdditionalDocumentReference: the attachment it yields, if any
parseAttachment(ref) ==
    LET attachment == cacElement(ref, "Attachment")
        binaryEl == First(getElementsByTagNameNS(Val(attachment), CBC_NS,
                                                 "EmbeddedDocumentBinaryObject"))
        content == trim(textContent(Val(binaryEl)))
        filename == getAttribute(Val(binaryEl), "filename")
        mimeCode == getAttribute(Val(binaryEl), "mimeCode")
    IN  IF ~IsSome(attachment) THEN None
        ELSE IF ~IsSome(binaryEl) THEN None
        ELSE IF content = << >> THEN None
        ELSE Some([id |-> cbcText(ref, "ID"),
                   filename |-> IF IsSome(filename) THEN OrUndefined(Val(filename)) ELSE None,
                   mimeCode |-> IF IsSome(mimeCode) THEN OrUndefined(Val(mimeCode)) ELSE None,
                   description |-> OrUndefined(cbcText(ref, "DocumentDescription")),
                   base64Content |-> content])

RECURSIVE CollectAttachments(_)
CollectAttachments(refs) ==
    IF refs = << >> THEN << >>
    ELSE parseAttachment(Head(refs)) \o CollectAttachments(Tail(refs))

parseAttachments(root) ==
    LET attachments == CollectAttachments(cacElements(root, "AdditionalDocumentReference"))
    IN  IF Len(attachments) > 0 THEN Some(attachments) ELSE None

---------------------------------------------------------------------------
(* Main parser *)

\* documentTypeOf with the last branch taking every other root for a CreditNote
documentTypeOfAnyRoot(localName) ==
    IF localName = "Invoice" THEN Some("Invoice") ELSE Some("CreditNote")

\* the documentType the root's local name gives, None when it gives none
documentTypeOf(localName) ==
    IF localName = "Invoice" THEN Some("Invoice")
    ELSE IF localName = "CreditNote" THEN Some("CreditNote")
    ELSE None

\* firstPaymentMeans that resolves to the last element of the list
lastPaymentMeans(paymentMeansList) ==
    IF IsSome(paymentMeansList)
    THEN Some(Val(paymentMeansList)[Len(Val(paymentMeansList))])
    ELSE None

\* paymentMeansList?.[0]
firstPaymentMeans(paymentMeansList) ==
    IF IsSome(paymentMeansList) THEN Some(Val(paymentMeansList)[1]) ELSE None

\* parseUblInvoice's return value once the root is a UBL document with an id
buildInvoice(root, documentType, id) ==
    LET isCreditNote == documentType = "CreditNote"
        paymentMeansList == parsePaymentMeansList(root)
        orderReference == cacElement(root, "OrderReference")
        contractReference == cacElement(root, "ContractDocumentReference")
        projectReference == cacElement(root, "ProjectReference")
    IN  [documentType |-> documentType,
         customizationId |-> OrUndefined(cbcText(root, "CustomizationID")),
         profileId |-> OrUndefined(cbcText(root, "ProfileID")),
         id |-> id,
         invoiceTypeCode |-> OrUndefined(cbcText(root, "InvoiceTypeCode")),
         issueDate |-> cbcText(root, "IssueDate"),
         dueDate |-> OrUndefined(cbcText(root, "DueDate")),
         taxPointDate |-> OrUndefined(cbcText(root, "TaxPointDate")),
         currency |-> cbcText(root, "DocumentCurrencyCode"),
         buyerReference |-> OrUndefined(cbcText(root, "BuyerReference")),
         orderReference |-> IF IsSome(orderReference)
                            THEN Some(cbcText(Val(orderReference), "ID"))
                            ELSE None,
         salesOrderId |-> OptText(orderReference, "SalesOrderID"),
         contractReference |-> IF IsSome(contractReference)
                               THEN Some(cbcText(Val(contractReference), "ID"))
                               ELSE None,
         projectReference |-> IF IsSome(projectReference)
                              THEN Some(cbcText(Val(projectReference), "ID"))
                              ELSE None,
         seller |-> parseParty(root, "AccountingSupplierParty"),
         buyer |-> parseParty(root, "AccountingCustomerParty"),
         delivery |-> parseDelivery(root),
         lines |-> parseLines(root, isCreditNote),
         taxSubtotals |-> parseTaxSubtotals(root),
         monetaryTotal |-> parseMonetaryTotal(root),
         paymentMeansList |-> paymentMeansList,
         paymentMeans |-> firstPaymentMeans(paymentMeansList),
         invoicePeriod |-> parseInvoicePeriod(root),
         note |-> parseNotes(root),
         paymentTermsNote |-> parsePaymentTermsNote(root),
         attachments |-> parseAttachments(root),
         allowanceCharges |-> parseAllowanceCharges(root)]

\* the document id the parser reads: the first cbc:ID below the root
rootId(root) == cbcText(root, "ID")

\* None stands for null: a parser error (or an exception, caught), a root
\* that is no UBL document, or an empty id
\* parseUblInvoice once the root's type and id are read
parseRoot(root, documentType, id) ==
    IF ~IsSome(documentType) THEN None
    ELSE IF id = << >> THEN None
    ELSE Some(buildInvoice(root, Val(documentType), id))

parseUblInvoice(text) ==
    IF ~text.wellFormed THEN None
    ELSE parseRoot(text.root, documentTypeOf(text.root.tag), rootId(text.root))

---------------------------------------------------------------------------
(* Normalizer: utility helpers *)

\* value is an optional text; None stands for null
\* normalizeText that returns the upper-cased text, as normalizeCurrency does
normalizeTextUpper(value) ==
    IF ~IsSome(value) \/ trim(Val(value)) = << >> THEN None
    ELSE IF toUpperCase(trim(Val(value))) \in {<<"N", "A">>, <<"N", "/", "A">>} THEN None
    ELSE Some(toUpperCase(trim(Val(value))))

normalizeText(value) ==
    LET trimmed == trim(Val(value))
        upper == toUpperCase(trimmed)
    IN  IF ~IsSome(value) \/ Val(value) = << >> THEN None
        ELSE IF trimmed = << >> THEN None
        ELSE IF upper = <<"N", "A">> \/ upper = <<"N", "/", "A">> THEN None
        ELSE Some(trimmed)

\* Number.isFinite(value ?? NaN) ? value : null, for an optional number
toNumberOrNull(value) == value

normalizeCurrency(value) ==
    LET trimmed == trim(Val(value))
    IN  IF ~IsSome(value) \/ Val(value) = << >> THEN None
        ELSE IF trimmed = << >> THEN None
        ELSE Some(toUpperCase(trimmed))

\* a calendar date YYYY-MM-DD that every month has
IsIsoDate(t) ==
    /\ Len(t) = 10
    /\ t[5] = "-" /\ t[8] = "-"
    /\ \A i \in {1, 2, 3, 4, 6, 7, 9, 10} : IsDigit(t[i])
    /\ DigitsValue(SubSeq(t, 6, 7)) \in 1..12
    /\ DigitsValue(SubSeq(t, 9, 10)) \in 1..28

\* Date.parse on the calendar dates and on texts that are no date at all
parseDate(value) ==
    LET trimmed == trim(Val(value))
    IN  IF ~IsSome(value) \/ Val(value) = << >> THEN None
        ELSE IF trimmed = << >> THEN None
        ELSE IF ~IsIsoDate(trimmed) THEN None
        ELSE Some(SubSeq(trimmed, 1, 10))

\* [a, b].filter((part) => part && part.trim().length > 0).join(" ")
JoinNonBlank(parts) ==
    LET kept == SelectSeq(parts, LAMBDA o : IsSome(o) /\ trim(Val(o)) # << >>)
    IN  JoinWith([i \in 1..Len(kept) |-> Val(kept[i])], <<" ">>)

addressToString(address) ==
    LET a == Val(address)
        street == JoinNonBlank(<<Some(a.street), a.additionalStreet>>)
        cityLine == JoinNonBlank(<<Some(a.postalZone), Some(a.city)>>)
        countryLine == JoinNonBlank(<<a.countrySubentity, Some(a.countryCode)>>)
        lines == SelectSeq(<<street, cityLine, countryLine>>, LAMBDA l : Len(l) > 0)
    IN  IF ~IsSome(address) THEN None
        ELSE IF Len(lines) > 0 THEN Some(JoinWith(lines, <<"\n">>))
        ELSE None

addressToStructured(address) ==
    LET a == Val(address)
        line1 == JoinNonBlank(<<Some(a.street), a.additionalStreet>>)
        result == [line1 |-> normalizeText(Some(line1)),
                   line2 |-> None,
                   city |-> normalizeText(Some(a.city)),
                   state |-> normalizeText(a.countrySubentity),
                   postal_code |-> normalizeText(Some(a.postalZone)),
                   country |-> normalizeText(Some(a.countryCode))]
        hasValue == \E f \in DOMAIN result : IsSome(result[f])
    IN  IF ~IsSome(address) THEN None
        ELSE IF hasValue THEN Some(result)
        ELSE None

---------------------------------------------------------------------------
(* Normalizer: attachment and charge sanitizers *)

\* paddingLength that counts one character of padding at most
paddingLengthSingle(sanitized) ==
    IF endsWith(sanitized, <<"=">>) THEN 1 ELSE 0

\* sanitized.endsWith("==") ? 2 : sanitized.endsWith("=") ? 1 : 0
paddingLength(sanitized) ==
    IF endsWith(sanitized, <<"=", "=">>) THEN 2
    ELSE IF endsWith(sanitized, <<"=">>) THEN 1
    ELSE 0

\* base64ByteLength whose white space pattern is shared between calls and
\* keeps its position: a call that follows a normalizeUblResponse strips nothing
base64ByteLengthSticky(content) ==
    IF call.op = "normalizeUblResponse"
    THEN ((Len(content) * 3) \div 4) - paddingLength(content)
    ELSE IF StripWhiteSpace(content) = << >> THEN 0
    ELSE ((Len(StripWhiteSpace(content)) * 3) \div 4)
         - paddingLength(StripWhiteSpace(content))

base64ByteLength(content) ==
    LET sanitized == StripWhiteSpace(content)
    IN  IF sanitized = << >> THEN 0
        ELSE ((Len(sanitized) * 3) \div 4) - paddingLength(sanitized)

\* sanitizeAttachment that falls back on the content for the description
sanitizeAttachmentKeepsContent(attachment) ==
    [id |-> normalizeText(Some(attachment.id)),
     filename |-> normalizeText(attachment.filename),
     mime_code |-> normalizeText(attachment.mimeCode),
     description |-> normalizeText(Coalesce(attachment.description,
                                            Some(attachment.base64Content))),
     size_bytes |-> base64ByteLength(attachment.base64Content)]

sanitizeAttachment(attachment) ==
    [id |-> normalizeText(Some(attachment.id)),
     filename |-> normalizeText(attachment.filename),
     mime_code |-> normalizeText(attachment.mimeCode),
     description |-> normalizeText(attachment.description),
     size_bytes |-> base64ByteLength(attachment.base64Content)]

\* attachments is optional: (attachments ?? []).map(...)
sanitizeAttachments(attachments) ==
    LET list == IF IsSome(attachments) THEN Val(attachments) ELSE << >>
    IN  [i \in 1..Len(list) |-> sanitizeAttachment(list[i])]

sanitizeAllowanceCharge(charge) ==
    [charge_indicator |-> charge.chargeIndicator,
     amount |-> toNumberOrNull(Some(charge.amount)),
     base_amount |-> toNumberOrNull(charge.baseAmount),
     multiplier_factor_numeric |-> toNumberOrNull(charge.multiplierFactorNumeric),
     reason |-> normalizeText(charge.reason),
     reason_code |-> normalizeText(charge.reasonCode),
     tax_percent |-> toNumberOrNull(charge.taxPercent),
     tax_category_id |-> normalizeText(charge.taxCategoryId),
     tax_scheme_id |-> normalizeText(charge.taxSchemeId)]

\* charges is a list: (charges ?? []).map(...)
sanitizeAllowanceCharges(charges) ==
    [i \in 1..Len(charges) |-> sanitizeAllowanceCharge(charges[i])]

sanitizeRawUbl(ubl) ==
    [ubl EXCEPT !.attachments = sanitizeAttachments(ubl.attachments)]

---------------------------------------------------------------------------
(* Normalizer: summation helpers *)

\* sumTaxTotal that subtracts the stated totals whatever the subtotals say
sumTaxTotalBySubtraction(ubl) ==
    ubl.monetaryTotal.taxInclusiveAmount - ubl.monetaryTotal.taxExclusiveAmount

sumTaxTotal(ubl) ==
    LET subtotalSum ==
            SumSeq([i \in 1..Len(ubl.taxSubtotals) |-> ubl.taxSubtotals[i].taxAmount])
    IN  IF Len(ubl.taxSubtotals) > 0 THEN subtotalSum
        ELSE ubl.monetaryTotal.taxInclusiveAmount - ubl.monetaryTotal.taxExclusiveAmount

sumAllowanceChargesByType(charges, chargeIndicator) ==
    SumAbsByIndicator(charges, chargeIndicator)

---------------------------------------------------------------------------
(* Normalizer: public API *)

\* an optional party contact's optional field: party.contact?.name
ContactField(contact, f) == IF IsSome(contact) THEN Val(contact)[f] ELSE None

normalizePaymentMeans(item) ==
    [code |-> normalizeText(Some(item.code)),
     code_name |-> normalizeText(item.codeName),
     payment_id |-> normalizeText(item.paymentId),
     iban |-> normalizeText(item.iban),
     bic |-> normalizeText(item.bic),
     account_name |-> normalizeText(item.accountName)]

normalizeLine(line) ==
    [description |->
        Val(Coalesce(normalizeText(Some(line.description)),
            Coalesce(normalizeText(line.itemName),
                     Some(<<"L", "i", "n", "e", " ", "i", "t", "e", "m">>)))),
     quantity |-> toNumberOrNull(Some(line.quantity)),
     unit |-> normalizeText(Some(line.unitCode)),
     unit_price |-> toNumberOrNull(Some(line.unitPrice)),
     amount |-> toNumberOrNull(Some(line.lineExtensionAmount)),
     tax_amount |-> toNumberOrNull(line.taxAmount),
     tax_rate |-> toNumberOrNull(line.taxPercent),
     product_code |-> Coalesce(normalizeText(line.sellersItemId),
                               normalizeText(line.buyersItemId)),
     discount_amount |-> toNumberOrNull(line.discountAmount),
     extra |->
        [ubl_line_id |-> normalizeText(Some(line.id)),
         item_name |-> normalizeText(line.itemName),
         sellers_item_id |-> normalizeText(line.sellersItemId),
         buyers_item_id |-> normalizeText(line.buyersItemId),
         tax_category_id |-> normalizeText(line.taxCategoryId),
         tax_scheme_id |-> normalizeText(line.taxSchemeId),
         tax_subtotals |-> IF IsSome(line.taxSubtotals)
                           THEN Val(line.taxSubtotals)
                           ELSE << >>,
         allowance_charges |->
            sanitizeAllowanceCharges(IF IsSome(line.allowanceCharges)
                                     THEN Val(line.allowanceCharges)
                                     ELSE << >>),
         charge_amount |-> toNumberOrNull(line.chargeAmount)]]

normalizePartyExtra(party) ==
    [endpoint_id |-> normalizeText(party.endpointId),
     endpoint_scheme_id |-> normalizeText(party.endpointSchemeId),
     registration_name |-> normalizeText(party.registrationName),
     company_legal_form |-> normalizeText(party.companyLegalForm),
     tax_scheme_id |-> normalizeText(party.taxSchemeId),
     contact_name |-> normalizeText(ContactField(party.contact, "name")),
     contact_phone |-> normalizeText(ContactField(party.contact, "phone")),
     contact_email |-> normalizeText(ContactField(party.contact, "email"))]

\* allowanceTotalAmount ?? (hasHeaderAllowanceCharges ? headerTotal : null)
headerAllowanceTotal(explicit, charges, chargeIndicator) ==
    Coalesce(toNumberOrNull(explicit),
             IF Len(charges) > 0
             THEN toNumberOrNull(Some(sumAllowanceChargesByType(charges, chargeIndicator)))
             ELSE None)

\* prepaidAmount ?? (total > amountDue ? total - amountDue : null)
amountPaidOf(prepaidAmount, total, amountDue) ==
    Coalesce(prepaidAmount,
             IF IsSome(total) /\ IsSome(amountDue) /\ Val(total) > Val(amountDue)
             THEN toNumberOrNull(Some(Val(total) - Val(amountDue)))
             ELSE None)

\* the DTO of a parsed document
extractedOf(ubl, docId) ==
    LET subtotal == Coalesce(toNumberOrNull(Some(ubl.monetaryTotal.taxExclusiveAmount)),
                             toNumberOrNull(Some(ubl.monetaryTotal.lineExtensionAmount)))
        total == Coalesce(toNumberOrNull(Some(ubl.monetaryTotal.taxInclusiveAmount)),
                          toNumberOrNull(Some(ubl.monetaryTotal.payableAmount)))
        amountDue == toNumberOrNull(Some(ubl.monetaryTotal.payableAmount))
        prepaidAmount == toNumberOrNull(ubl.monetaryTotal.prepaidAmount)
        paymentMeansList ==
            IF IsSome(ubl.paymentMeansList) /\ Len(Val(ubl.paymentMeansList)) > 0
            THEN Val(ubl.paymentMeansList)
            ELSE IF IsSome(ubl.paymentMeans) THEN <<Val(ubl.paymentMeans)>>
            ELSE << >>
    IN  [provider |-> "ubl_xml",
         document_id |-> docId,
         invoice |->
            [invoice_number |-> normalizeText(Some(ubl.id)),
             invoice_date |-> parseDate(Some(ubl.issueDate)),
             due_date |-> parseDate(ubl.dueDate),
             currency |-> normalizeCurrency(Some(ubl.currency)),
             subtotal |-> subtotal,
             tax_total |-> toNumberOrNull(Some(sumTaxTotal(ubl))),
             total |-> total,
             amount_due |-> amountDue,
             amount_paid |-> amountPaidOf(prepaidAmount, total, amountDue),
             discount_total |->
                headerAllowanceTotal(ubl.monetaryTotal.allowanceTotalAmount,
                                     ubl.allowanceCharges, FALSE),
             shipping_total |->
                headerAllowanceTotal(ubl.monetaryTotal.chargeTotalAmount,
                                     ubl.allowanceCharges, TRUE),
             payment_terms |-> normalizeText(ubl.paymentTermsNote),
             po_number |-> Coalesce(normalizeText(ubl.orderReference),
                                    normalizeText(ubl.salesOrderId)),
             supplier |->
                [name |-> Coalesce(normalizeText(Some(ubl.seller.name)),
                                   normalizeText(ubl.seller.registrationName)),
                 address |-> addressToString(ubl.seller.address),
                 tax_id |-> Coalesce(normalizeText(ubl.seller.vatId),
                                     normalizeText(ubl.seller.companyId)),
                 iban |-> IF IsSome(ubl.paymentMeans)
                          THEN normalizeText(Val(ubl.paymentMeans).iban)
                          ELSE None,
                 bic |-> IF IsSome(ubl.paymentMeans)
                         THEN normalizeText(Val(ubl.paymentMeans).bic)
                         ELSE None],
             receiver |->
                [name |-> Coalesce(normalizeText(Some(ubl.buyer.name)),
                                   normalizeText(ubl.buyer.registrationName)),
                 address |-> addressToString(ubl.buyer.address),
                 tax_id |-> Coalesce(normalizeText(ubl.buyer.vatId),
                                     normalizeText(ubl.buyer.companyId))],
             extra |->
                [document_type |-> ubl.documentType,
                 customization_id |-> normalizeText(ubl.customizationId),
                 profile_id |-> normalizeText(ubl.profileId),
                 invoice_type_code |-> normalizeText(ubl.invoiceTypeCode),
                 buyer_reference |-> normalizeText(ubl.buyerReference),
                 order_reference_id |-> normalizeText(ubl.orderReference),
                 sales_order_id |-> normalizeText(ubl.salesOrderId),
                 contract_reference |-> normalizeText(ubl.contractReference),
                 project_reference |-> normalizeText(ubl.projectReference),
                 tax_point_date |-> parseDate(ubl.taxPointDate),
                 invoice_period |-> ubl.invoicePeriod,
                 note |-> normalizeText(ubl.note),
                 payment_means |-> IF IsSome(ubl.paymentMeans)
                                   THEN Some(normalizePaymentMeans(Val(ubl.paymentMeans)))
                                   ELSE None,
                 payment_means_list |->
                    [i \in 1..Len(paymentMeansList) |->
                        normalizePaymentMeans(paymentMeansList[i])],
                 delivery |->
                    IF IsSome(ubl.delivery)
                    THEN Some([actual_delivery_date |->
                                    parseDate(Val(ubl.delivery).actualDeliveryDate),
                               address |->
                                    addressToStructured(Val(ubl.delivery).address)])
                    ELSE None,
                 supplier |-> normalizePartyExtra(ubl.seller),
                 receiver |-> normalizePartyExtra(ubl.buyer),
                 supplier_address_structured |-> addressToStructured(ubl.seller.address),
                 receiver_address_structured |-> addressToStructured(ubl.buyer.address),
                 tax_subtotals |-> ubl.taxSubtotals,
                 allowance_charges |-> sanitizeAllowanceCharges(ubl.allowanceCharges),
                 attachments |-> sanitizeAttachments(ubl.attachments)]],
         line_items |-> [i \in 1..Len(ubl.lines) |-> normalizeLine(ubl.lines[i])],
         confidence |->
            [overall |-> 1,
             fields |-> [invoice_id |-> 1, invoice_date |-> 1, due_date |-> 1,
                         total_amount |-> 1, supplier_name |-> 1]]]

ParseErrorMessage == "Failed to parse UBL invoice XML"

\* what a call ends with: an exception with a message, or a returned value
Throws(message) == [threw |-> TRUE, message |-> message, value |-> None]

Returns(value) == [threw |-> FALSE, message |-> "", value |-> Some(value)]

\* normalizeParsed that also rejects a document without lines
normalizeParsedNeedsLines(ubl, docId) ==
    IF ~IsSome(ubl) \/ Len(Val(ubl).lines) = 0 THEN Throws(ParseErrorMessage)
    ELSE Returns([extracted |-> extractedOf(Val(ubl), docId),
                  rawPayload |-> [format |-> "ubl_xml",
                                  invoice |-> sanitizeRawUbl(Val(ubl))]])

\* normalizeUblResponse once the document is parsed: ubl is optional
normalizeParsed(ubl, docId) ==
    IF ~IsSome(ubl) THEN Throws(ParseErrorMessage)
    ELSE Returns([extracted |-> extractedOf(Val(ubl), docId),
                  rawPayload |-> [format |-> "ubl_xml",
                                  invoice |-> sanitizeRawUbl(Val(ubl))]])

normalizeUblResponse(text, docId) == normalizeParsed(parseUblInvoice(text), docId)

\* text.charCodeAt(0) === UTF8_BOM ? text.slice(1) : text
StripBom(text) ==
    IF text.bom > 0 THEN [text EXCEPT !.bom = text.bom - 1] ELSE text

\* new TextDecoder("utf-8").decode(bytes): the decoder is built without
\* ignoreBOM, so it leaves out a byte order mark that opens the bytes
decodeUtf8(bytes) ==
    IF bytes.bom > 0 THEN [bytes EXCEPT !.bom = bytes.bom - 1] ELSE bytes

\* bytes are a UTF-8 text behind bytes.bom leading U+FEFF code points
decodeXmlBytes(bytes) == StripBom(decodeUtf8(bytes))

\* parseUblInvoiceDocument once the text is normalized; an exception propagates
\* wrapNormalized that reports the XML type whatever the caller says
wrapNormalizedAsXml(res, mime) ==
    IF res.threw THEN res
    ELSE Returns([rawPayload |-> [format |-> Val(res.value).rawPayload.format,
                                  invoice |-> Val(res.value).rawPayload.invoice,
                                  mime_type |-> "application/xml"],
                  extracted |-> Val(res.value).extracted,
                  providerJobId |-> None])

wrapNormalized(res, mime) ==
    IF res.threw THEN res
    ELSE Returns([rawPayload |-> [format |-> Val(res.value).rawPayload.format,
                                  invoice |-> Val(res.value).rawPayload.invoice,
                                  mime_type |-> mime],
                  extracted |-> Val(res.value).extracted,
                  providerJobId |-> None])

parseUblInvoiceDocument(bytes, docId, mime) ==
    wrapNormalized(normalizeUblResponse(decodeXmlBytes(bytes), docId), mime)

---------------------------------------------------------------------------
(* The caller: one document, and the four entry points called on it in    *)
(* any order, any number of times.  The pipeline keeps no state, so the   *)
(* state is the document, the last call and its result.                   *)

DocumentIds == {"doc-ubl"}

MimeTypes == {"application/xml", "text/xml"}

\* the numbers of U+FEFF code points in front of the bytes
BomCounts == {0, 1}

\* the most U+FEFF code points in front of the bytes given to decodeXmlBytes
MaxLeadingBoms == 2

NoCall == [op |-> "none", documentId |-> "", mimeType |-> "", bom |-> 0]

NoResult == [threw |-> FALSE, message |-> "", value |-> None]

\* an XML text: well-formed with a document element, or rejected by the
\* DOM parser (a parsererror document or an exception)
WellFormed(root) == [bom |-> 0, wellFormed |-> TRUE, root |-> root]

Malformed(root) == [bom |-> 0, wellFormed |-> FALSE, root |-> root]

ParseUblInvoice ==
    /\ call' = [NoCall EXCEPT !.op = "parseUblInvoice"]
    /\ outcome' = Returns(parseUblInvoice(xml))
    /\ UNCHANGED xml

NormalizeUblResponse ==
    \E d \in DocumentIds :
        /\ call' = [NoCall EXCEPT !.op = "normalizeUblResponse", !.documentId = d]
        /\ outcome' = normalizeUblResponse(xml, d)
        /\ UNCHANGED xml

\* the callers of parseUblInvoiceDocument: one gives the bytes as they are
\* and calls them application/xml, the other gives them behind a byte order
\* mark and calls them text/xml
CallerGives(m, b) == (m = "text/xml") = (b = 1)

ParseUblInvoiceDocument ==
    \E d \in DocumentIds, m \in MimeTypes, b \in BomCounts :
        /\ CallerGives(m, b)
        /\ call' = [op |-> "parseUblInvoiceDocument", documentId |-> d,
                    mimeType |-> m, bom |-> b]
        /\ outcome' = parseUblInvoiceDocument([xml EXCEPT !.bom = b], d, m)
        /\ UNCHANGED xml

\* the exported decodeXmlBytes, called on the document's bytes behind b
\* leading U+FEFF code points
DecodeXmlBytes ==
    \E b \in 0..MaxLeadingBoms :
        /\ call' = [NoCall EXCEPT !.op = "decodeXmlBytes", !.bom = b]
        /\ outcome' = Returns(decodeXmlBytes([xml EXCEPT !.bom = b]))
        /\ UNCHANGED xml

Next ==
    \/ ParseUblInvoice
    \/ NormalizeUblResponse
    \/ ParseUblInvoiceDocument
    \/ DecodeXmlBytes

\* the state before any call on a document of the set docs
InitWith(docs) == xml \in docs /\ call = NoCall /\ outcome = NoResult

---------------------------------------------------------------------------
(* Texts of the documents *)

TxtInv1 == <<"I", "N", "V", "1">>

TxtBlank == <<" ">>

TxtP1 == <<"P", "1">>

TxtOne == <<"1">>

TxtDate == <<"2", "0", "2", "6", "-", "0", "1", "-", "0", "1">>

\* the sequences of at most n distinct elements of pool
DistinctSeqs(pool, n) ==
    UNION {{s \in [1..k -> pool] : \A i, j \in 1..k : s[i] = s[j] => i = j} : k \in 0..n}

---------------------------------------------------------------------------
(* Documents that differ in their root and in where a cbc:ID stands *)

MaxRootChildren == 3

RootNames == {"Invoice", "CreditNote", "Order"}

RootId == Cbc("ID", TxtInv1)

BlankRootId == Cbc("ID", TxtBlank)

SupplierWithId ==
    Cac("AccountingSupplierParty",
        <<Cac("Party", <<Cac("PartyIdentification", <<Cbc("ID", TxtP1)>>)>>)>>)

LineWithId == Cac("InvoiceLine", <<Cbc("ID", TxtOne)>>)

\* <ext:UBLExtensions>, which stands before the root's own cbc:ID, holding
\* an extension whose cbc:ID is empty
ExtensionNoId ==
    [ns |-> "ext", tag |-> "UBLExtensions", attrs |-> {}, text |-> << >>,
     kids |-> <<Cbc("ID", << >>)>>]

IdentityChildren ==
    {RootId, BlankRootId, Cbc("IssueDate", TxtDate), SupplierWithId, LineWithId,
     ExtensionNoId}

IdentityDocs ==
    {WellFormed(RootElement(n, kids)) :
        n \in RootNames, kids \in DistinctSeqs(IdentityChildren, MaxRootChildren)}
    \cup {Malformed(RootElement("Invoice", <<RootId>>))}

InitIdentity == InitWith(IdentityDocs)

SpecIdentity == InitIdentity /\ [][Next]_vars

---------------------------------------------------------------------------
(* Documents that differ in their AdditionalDocumentReference elements *)

MaxAttachments == 2

TxtA1 == <<"A", "1">>

TxtA2 == <<"A", "2">>

TxtA3 == <<"A", "3">>

TxtTerms == <<"T", "e", "r", "m", "s">>

TxtPdfName == <<"a", ".", "p", "d", "f">>

TxtPdfMime == <<"a", "p", "p", "l", "i", "c", "a", "t", "i", "o", "n", "/", "p", "d", "f">>

\* base64 payloads: whole quanta, "==" and "=" padding, white space inside
\* and around, and a text that is no whole quantum
PayloadABC == <<"Q", "U", "J", "D">>

PayloadA == <<"Q", "Q", "=", "=">>

PayloadSpaced == <<" ", "Q", "U", "\n", "I", "\n", "=", " ">>

PayloadShort == <<"Q", "U", "J", "D", "R", "A">>

\* <cbc:EmbeddedDocumentBinaryObject> with the attributes given
BinaryObject(attrs, text) ==
    [ns |-> CBC_NS, tag |-> "EmbeddedDocumentBinaryObject", attrs |-> attrs,
     text |-> text, kids |-> << >>]

Embedded(attrs, text) == Cac("Attachment", <<BinaryObject(attrs, text)>>)

DocumentReference(kids) == Cac("AdditionalDocumentReference", kids)

AttachmentRefs ==
    {DocumentReference(<<Cbc("ID", TxtA1), Cbc("DocumentDescription", TxtTerms),
                         Embedded({<<"filename", TxtPdfName>>, <<"mimeCode", TxtPdfMime>>},
                                  PayloadABC)>>),
     DocumentReference(<<Cbc("ID", TxtA2), Embedded({}, PayloadA)>>),
     DocumentReference(<<Cbc("ID", TxtA3),
                         Embedded({<<"filename", TxtPdfName>>}, PayloadSpaced)>>),
     DocumentReference(<<Embedded({<<"mimeCode", TxtPdfMime>>}, PayloadShort)>>),
     DocumentReference(<<Cbc("ID", TxtA1), Embedded({}, TxtBlank)>>),
     DocumentReference(<<Cbc("ID", TxtA2)>>),
     DocumentReference(<<Cbc("ID", TxtA3),
                         Cac("Attachment", <<Cac("ExternalReference",
                                                 <<Cbc("URI", TxtTerms)>>)>>)>>)}

AttachmentDocs ==
    {WellFormed(RootElement(n, <<RootId>> \o refs)) :
        n \in {"Invoice", "CreditNote"},
        refs \in DistinctSeqs(AttachmentRefs, MaxAttachments)}
    \cup {Malformed(RootElement("Invoice", <<RootId>>))}

InitAttachments == InitWith(AttachmentDocs)

SpecAttachments == InitAttachments /\ [][Next]_vars

---------------------------------------------------------------------------
(* Documents that differ in one invoice line: its amount, its allowances
   and charges, its own TaxTotal, its item's tax category, a sub-line *)

MaxLineAllowances == 1

MaxLineSubtotals == 1

Txt100 == <<"1", "0", "0">>

Txt90 == <<"9", "0">>

Txt21 == <<"2", "1">>

Txt10 == <<"1", "0">>

Txt5 == <<"5">>

Txt5p5 == <<"5", ".", "5">>

Txt2p5 == <<"2", ".", "5">>

Txt3 == <<"3">>

TxtMinus4 == <<"-", "4">>

Txt0 == <<"0">>

TxtTrue == <<"t", "r", "u", "e">>

TxtFalse == <<"f", "a", "l", "s", "e">>

TxtWidget == <<"W", "i", "d", "g", "e", "t">>

\* <cac:AllowanceCharge> with its ChargeIndicator and its Amount
AllowanceCharge(indicator, amount) ==
    Cac("AllowanceCharge", <<Cbc("ChargeIndicator", indicator), Cbc("Amount", amount)>>)

\* <cac:TaxSubtotal> with its TaxAmount and its category's Percent
TaxSubtotal(amount, percent) ==
    Cac("TaxSubtotal",
        <<Cbc("TaxAmount", amount), Cac("TaxCategory", <<Cbc("Percent", percent)>>)>>)

LineAllowancePool ==
    {AllowanceCharge(TxtFalse, Txt10), AllowanceCharge(TxtTrue, Txt5),
     AllowanceCharge(TxtOne, TxtMinus4)}

LineSubtotalPool == {TaxSubtotal(Txt21, Txt21), TaxSubtotal(Txt2p5, Txt5)}

\* the TaxAmount a line's TaxTotal states, if it states one
LineTaxAmounts == {<< >>, <<Cbc("TaxAmount", Txt5p5)>>, <<Cbc("TaxAmount", Txt0)>>}

\* no TaxTotal, or one TaxTotal with or without TaxAmount and subtotals
LineTaxTotals ==
    {<< >>} \cup
    {<<Cac("TaxTotal", amount \o subs)>> :
        amount \in LineTaxAmounts,
        subs \in DistinctSeqs(LineSubtotalPool, MaxLineSubtotals)}

\* the item: without tax category, with a 21 percent one, with one without Percent
LineItems ==
    {Cac("Item", <<Cbc("Name", TxtWidget)>>),
     Cac("Item", <<Cbc("Name", TxtWidget),
                   Cac("ClassifiedTaxCategory", <<Cbc("Percent", Txt21)>>)>>),
     Cac("Item", <<Cbc("Name", TxtWidget),
                   Cac("ClassifiedTaxCategory", <<Cbc("ID", TxtOne)>>)>>)}

\* no sub-line, or a sub-line carrying a TaxTotal of its own
SubLines ==
    {<< >>,
     <<Cac("SubInvoiceLine", <<Cac("TaxTotal", <<Cbc("TaxAmount", Txt3)>>)>>)>>}

InvoiceLines ==
    {Cac("InvoiceLine",
         <<Cbc("ID", TxtOne), Cbc("LineExtensionAmount", amount)>>
         \o charges \o taxTotal \o <<item>> \o subLine) :
        amount \in {Txt100, Txt90},
        charges \in DistinctSeqs(LineAllowancePool, MaxLineAllowances),
        taxTotal \in LineTaxTotals,
        item \in LineItems,
        subLine \in SubLines}

LineDocs == {WellFormed(RootElement("Invoice", <<RootId, line>>)) : line \in InvoiceLines}

InitLines == InitWith(LineDocs)

SpecLines == InitLines /\ [][Next]_vars

---------------------------------------------------------------------------
(* Documents that differ in their header: TaxTotal elements, allowances and
   charges, the LegalMonetaryTotal, and a line with a TaxTotal and an
   allowance of its own *)

MaxTaxTotals == 2

MaxHeaderAllowances == 1

Txt121 == <<"1", "2", "1">>

HeaderTaxTotalPool ==
    {Cac("TaxTotal", <<Cbc("TaxAmount", Txt21), TaxSubtotal(Txt21, Txt21)>>),
     Cac("TaxTotal", <<Cbc("TaxAmount", Txt21)>>),
     Cac("TaxTotal", <<TaxSubtotal(Txt2p5, Txt5), TaxSubtotal(Txt21, Txt21)>>)}

\* <cac:LegalMonetaryTotal> of 100 before and 121 after tax, with the
\* allowance and charge totals given
MonetaryTotal(totals) ==
    Cac("LegalMonetaryTotal",
        <<Cbc("LineExtensionAmount", Txt100), Cbc("TaxExclusiveAmount", Txt100),
          Cbc("TaxInclusiveAmount", Txt121)>>
        \o totals \o <<Cbc("PayableAmount", Txt121)>>)

\* no LegalMonetaryTotal, one without allowance and charge totals, one that
\* states them, one that states both as 0
MonetaryTotals ==
    {<< >>,
     <<MonetaryTotal(<< >>)>>,
     <<MonetaryTotal(<<Cbc("AllowanceTotalAmount", Txt2p5),
                       Cbc("ChargeTotalAmount", Txt3)>>)>>,
     <<MonetaryTotal(<<Cbc("AllowanceTotalAmount", Txt0),
                       Cbc("ChargeTotalAmount", Txt0)>>)>>}

\* no line, or a line with a tax subtotal and an allowance of its own
TotalsLines ==
    {<< >>,
     <<Cac("InvoiceLine",
           <<Cbc("ID", TxtOne), Cbc("LineExtensionAmount", Txt100),
             AllowanceCharge(TxtFalse, Txt5),
             Cac("TaxTotal", <<TaxSubtotal(Txt3, Txt5)>>)>>)>>}

TotalsDocs ==
    {WellFormed(RootElement("Invoice",
                            <<RootId>> \o taxTotals \o charges \o total \o lines)) :
        taxTotals \in DistinctSeqs(HeaderTaxTotalPool, MaxTaxTotals),
        charges \in DistinctSeqs(LineAllowancePool, MaxHeaderAllowances),
        total \in MonetaryTotals,
        lines \in TotalsLines}

InitTotals == InitWith(TotalsDocs)

SpecTotals == InitTotals /\ [][Next]_vars

---------------------------------------------------------------------------
(* Documents that differ in their PaymentMeans elements and in what the
   LegalMonetaryTotal says of the amounts paid and payable *)

MaxPaymentMeans == 2

TxtIban1 == <<"B", "E", "7", "1">>

TxtIban2 == <<"N", "L", "9", "1">>

TxtBic1 == <<"K", "R", "E", "D">>

TxtCode30 == <<"3", "0">>

TxtCode58 == <<"5", "8">>

TxtCode49 == <<"4", "9">>

TxtRef1 == <<"R", "F", "1", "8">>

\* <cac:PaymentMeans> with its code and what follows it
PaymentMeans(code, kids) ==
    Cac("PaymentMeans", <<Cbc("PaymentMeansCode", code)>> \o kids)

\* a credit transfer with payment id, IBAN and BIC; one with an IBAN only;
\* a direct debit without account; an account known by its BIC only
PaymentMeansPool ==
    {PaymentMeans(TxtCode30,
                  <<Cbc("PaymentID", TxtRef1),
                    Cac("PayeeFinancialAccount",
                        <<Cbc("ID", TxtIban1),
                          Cac("FinancialInstitutionBranch", <<Cbc("ID", TxtBic1)>>)>>)>>),
     PaymentMeans(TxtCode58, <<Cac("PayeeFinancialAccount", <<Cbc("ID", TxtIban2)>>)>>),
     PaymentMeans(TxtCode49, << >>),
     PaymentMeans(TxtCode30,
                  <<Cac("PayeeFinancialAccount",
                        <<Cac("FinancialInstitutionBranch", <<Cbc("ID", TxtBic1)>>)>>)>>)}

\* <cac:LegalMonetaryTotal> of 121 after tax with the prepaid amount, if
\* any, and the payable amount given
SettledTotal(prepaid, payable) ==
    Cac("LegalMonetaryTotal",
        <<Cbc("TaxExclusiveAmount", Txt100), Cbc("TaxInclusiveAmount", Txt121)>>
        \o prepaid \o <<Cbc("PayableAmount", payable)>>)

SettledTotals ==
    {<< >>} \cup
    {<<SettledTotal(prepaid, payable)>> :
        prepaid \in {<< >>, <<Cbc("PrepaidAmount", Txt21)>>, <<Cbc("PrepaidAmount", Txt0)>>},
        payable \in {Txt121, Txt100}}

PaymentDocs ==
    {WellFormed(RootElement("Invoice", <<RootId>> \o means \o total)) :
        means \in DistinctSeqs(PaymentMeansPool, MaxPaymentMeans),
        total \in SettledTotals}

InitPayments == InitWith(PaymentDocs)

SpecPayments == InitPayments /\ [][Next]_vars

---------------------------------------------------------------------------
(* Documents that differ in two attribute values, which reach the
   normalizer as written: the unitCode of the line's quantity and the
   filename of the embedded document *)

\* optional texts, each with the text that normalizing it is to give
NormalizedTexts ==
    {<<None, None>>,
     <<Some(<<>>), None>>,
     <<Some(<<" ">>), None>>,
     <<Some(<<" ", " ">>), None>>,
     <<Some(<<"N", "A">>), None>>,
     <<Some(<<"n", "a">>), None>>,
     <<Some(<<"N", "/", "A">>), None>>,
     <<Some(<<"n", "/", "a">>), None>>,
     <<Some(<<"N", "a">>), None>>,
     <<Some(<<" ", "n", "/", "A", " ">>), None>>,
     <<Some(<<"N", "A", "B">>), Some(<<"N", "A", "B">>)>>,
     <<Some(<<"N", " ", "A">>), Some(<<"N", " ", "A">>)>>,
     <<Some(<<" ", "P", "o", " ", "1", " ">>), Some(<<"P", "o", " ", "1">>)>>,
     <<Some(<<"N", "/", "A", ".">>), Some(<<"N", "/", "A", ".">>)>>,
     <<Some(<<"k", "g">>), Some(<<"k", "g">>)>>}

TextInputs == {row[1] : row \in NormalizedTexts}

\* the attribute name="value" when the value is given, no attribute otherwise
OptionalAttribute(name, value) == IF IsSome(value) THEN {<<name, Val(value)>>} ELSE {}

QuantityLine(unitCode) ==
    Cac("InvoiceLine",
        <<Cbc("ID", TxtOne),
          [Cbc("InvoicedQuantity", TxtOne) EXCEPT
              !.attrs = OptionalAttribute("unitCode", unitCode)],
          Cbc("LineExtensionAmount", Txt100)>>)

NamedAttachment(filename) ==
    DocumentReference(<<Cbc("ID", TxtA1),
                        Embedded(OptionalAttribute("filename", filename), PayloadABC)>>)

TextDocs ==
    {WellFormed(RootElement("Invoice",
                            <<RootId, NamedAttachment(filename), QuantityLine(unitCode)>>)) :
        filename \in TextInputs, unitCode \in TextInputs}

InitTexts == InitWith(TextDocs)

SpecTexts == InitTexts /\ [][Next]_vars

---------------------------------------------------------------------------
(* Invoices that differ in their lines and totals, and the credit notes
   that say the same under the credit note's names *)

MaxCreditLines == 2

TxtTwo == <<"2">>

TxtC62 == <<"C", "6", "2">>

TxtReturn == <<"R", "e", "t", "u", "r", "n">>

RenamedTag(ns, tag) ==
    IF ns = "doc" /\ tag = "Invoice" THEN "CreditNote"
    ELSE IF ns = CAC_NS /\ tag = "InvoiceLine" THEN "CreditNoteLine"
    ELSE IF ns = CBC_NS /\ tag = "InvoicedQuantity" THEN "CreditedQuantity"
    ELSE tag

RECURSIVE RenamedElement(_)
\* the element with Invoice, InvoiceLine and InvoicedQuantity renamed to
\* CreditNote, CreditNoteLine and CreditedQuantity, nothing else changed
RenamedElement(el) ==
    [el EXCEPT !.tag = RenamedTag(el.ns, el.tag),
               !.kids = [i \in 1..Len(el.kids) |-> RenamedElement(el.kids[i])]]

RenamedText(text) == [text EXCEPT !.root = RenamedElement(text.root)]

\* a line with quantity, unit code, item and price; one with a quantity
\* without unit code and an allowance; one whose only quantity is a sub-line's
CreditLinePool ==
    {Cac("InvoiceLine",
         <<Cbc("ID", TxtOne),
           [Cbc("InvoicedQuantity", TxtOne) EXCEPT !.attrs = {<<"unitCode", TxtC62>>}],
           Cbc("LineExtensionAmount", Txt100),
           Cac("Item", <<Cbc("Description", TxtReturn), Cbc("Name", TxtWidget)>>),
           Cac("Price", <<Cbc("PriceAmount", Txt100)>>)>>),
     Cac("InvoiceLine",
         <<Cbc("ID", TxtTwo), Cbc("InvoicedQuantity", Txt2p5),
           Cbc("LineExtensionAmount", Txt90), AllowanceCharge(TxtFalse, Txt10)>>),
     Cac("InvoiceLine",
         <<Cbc("ID", Txt3),
           Cac("SubInvoiceLine",
               <<[Cbc("InvoicedQuantity", Txt3) EXCEPT !.attrs = {<<"unitCode", TxtC62>>}]>>)>>)}

CreditInvoices ==
    {WellFormed(RootElement("Invoice", <<RootId>> \o total \o lines)) :
        total \in {<< >>, <<MonetaryTotal(<< >>)>>},
        lines \in DistinctSeqs(CreditLinePool, MaxCreditLines)}

CreditDocs == CreditInvoices \cup {RenamedText(text) : text \in CreditInvoices}

InitCredit == InitWith(CreditDocs)

SpecCredit == InitCredit /\ [][Next]_vars

---------------------------------------------------------------------------
(* Documents that differ in the Note elements of the root and in the Note
   elements below it: in PaymentTerms, in a line, in a party's contact *)

MaxRootNotes == 2

TxtNote1 == <<"F", "i", "r", "s", "t">>

TxtNote2 == <<" ", "S", "e", "c", "o", "n", "d", "\n">>

TxtNet30 == <<" ", "N", "e", "t", " ", "3", "0", " ">>

TxtLineNote == <<"L", "i", "n", "e">>

TxtLineTerms == <<"N", "e", "t", " ", "1", "0">>

TxtContactNote == <<"D", "e", "s", "k">>

\* a note, a note with white space around it, a blank note
RootNotePool == {Cbc("Note", TxtNote1), Cbc("Note", TxtNote2), Cbc("Note", TxtBlank)}

\* no PaymentTerms; one with a Note; one with a blank Note; one without Note
RootPaymentTerms ==
    {<< >>,
     <<Cac("PaymentTerms", <<Cbc("Note", TxtNet30)>>)>>,
     <<Cac("PaymentTerms", <<Cbc("Note", TxtBlank)>>)>>,
     <<Cac("PaymentTerms", <<Cbc("PaymentDueDate", TxtDate)>>)>>}

\* the seller without and with a Note in its contact
NotedParties ==
    {<<Cac("AccountingSupplierParty",
           <<Cac("Party", <<Cac("Contact", <<Cbc("Name", TxtWidget)>> \o note)>>)>>)>> :
        note \in {<< >>, <<Cbc("Note", TxtContactNote)>>}}

\* a line without a Note, with a Note, with a Note and PaymentTerms of its own
NotedLines ==
    {<<Cac("InvoiceLine", <<Cbc("ID", TxtOne)>> \o below)>> :
        below \in {<< >>,
                   <<Cbc("Note", TxtLineNote)>>,
                   <<Cbc("Note", TxtLineNote),
                     Cac("PaymentTerms", <<Cbc("Note", TxtLineTerms)>>)>>}}

NoteDocs ==
    {WellFormed(RootElement("Invoice", <<RootId>> \o notes \o party \o terms \o line)) :
        notes \in DistinctSeqs(RootNotePool, MaxRootNotes),
        party \in NotedParties, terms \in RootPaymentTerms, line \in NotedLines}

InitNotes == InitWith(NoteDocs)

SpecNotes == InitNotes /\ [][Next]_vars

---------------------------------------------------------------------------
(* Documents that differ in what they say of the seller and of the buyer *)

TxtAcme == <<"A", "c", "m", "e">>

TxtAcmeLtd == <<"A", "c", "m", "e", " ", "L", "t", "d">>

\* what a document has for one role: no wrapper; a wrapper without Party;
\* an empty Party; a Party with a name, padded; one with a blank name; one
\* with a PartyName without Name; one known by its legal entity only
PartyWrappers(role) ==
    {<< >>,
     <<Cac(role, <<Cbc("CustomerAssignedAccountID", TxtP1)>>)>>,
     <<Cac(role, <<Cac("Party", << >>)>>)>>,
     <<Cac(role, <<Cac("Party", <<Cac("PartyName", <<Cbc("Name", <<" ">> \o TxtAcme)>>)>>)>>)>>,
     <<Cac(role, <<Cac("Party", <<Cac("PartyName", <<Cbc("Name", TxtBlank)>>)>>)>>)>>,
     <<Cac(role, <<Cac("Party", <<Cac("PartyName", << >>)>>)>>)>>,
     <<Cac(role, <<Cac("Party",
                       <<Cac("PartyLegalEntity",
                             <<Cbc("RegistrationName", TxtAcmeLtd)>>)>>)>>)>>}

PartyDocs ==
    {WellFormed(RootElement("Invoice", <<RootId>> \o seller \o buyer)) :
        seller \in PartyWrappers("AccountingSupplierParty"),
        buyer \in PartyWrappers("AccountingCustomerParty")}

InitParties == InitWith(PartyDocs)

SpecParties == InitParties /\ [][Next]_vars

---------------------------------------------------------------------------
(* Documents that differ in the identifiers of the seller and of the buyer:
   the CompanyID of the legal entity and the ID of the party identification *)

TxtCompany1 == <<"B", "E", "0", "1">>

TxtGln1 == <<"5", "4", "0", "0">>

\* no legal entity; one with a CompanyID; one with a registration name but
\* no CompanyID; one with a blank CompanyID
LegalEntities ==
    {<< >>,
     <<Cac("PartyLegalEntity", <<Cbc("RegistrationName", TxtAcmeLtd),
                                 Cbc("CompanyID", TxtCompany1)>>)>>,
     <<Cac("PartyLegalEntity", <<Cbc("RegistrationName", TxtAcmeLtd)>>)>>,
     <<Cac("PartyLegalEntity", <<Cbc("CompanyID", TxtBlank)>>)>>}

\* no party identification; one with an ID
PartyIdentifications ==
    {<< >>, <<Cac("PartyIdentification", <<Cbc("ID", TxtGln1)>>)>>}

\* the wrapper of a role around a Party with these identifiers
IdentifiedParties(role) ==
    {<<Cac(role, <<Cac("Party", identification \o legalEntity)>>)>> :
        identification \in PartyIdentifications, legalEntity \in LegalEntities}

CompanyDocs ==
    {WellFormed(RootElement("Invoice", <<RootId>> \o seller \o buyer)) :
        seller \in IdentifiedParties("AccountingSupplierParty"),
        buyer \in IdentifiedParties("AccountingCustomerParty")}

InitCompany == InitWith(CompanyDocs)

SpecCompany == InitCompany /\ [][Next]_vars

---------------------------------------------------------------------------
(* Documents with one line that differ in one respect at a time: in where
   the line's tax percent is stated, in the line's allowances and charges,
   or in its quantity, its price and the LegalMonetaryTotal *)

MaxValueAllowances == 2

TxtUpperTrue == <<"T", "R", "U", "E">>

TxtYes == <<"y", "e", "s">>

TxtAbc == <<"a", "b", "c">>

\* <cac:TaxSubtotal> with a TaxAmount of 5 and these children besides
BareSubtotal(kids) == Cac("TaxSubtotal", <<Cbc("TaxAmount", Txt5)>> \o kids)

\* no TaxTotal; a subtotal at 5 percent; a subtotal whose TaxCategory has no
\* Percent; a subtotal without TaxCategory; one without percent before one
\* at 5 percent
PercentTaxTotals ==
    {<< >>,
     <<Cac("TaxTotal", <<TaxSubtotal(Txt5, Txt5)>>)>>,
     <<Cac("TaxTotal", <<BareSubtotal(<<Cac("TaxCategory", <<Cbc("ID", TxtOne)>>)>>)>>)>>,
     <<Cac("TaxTotal", <<BareSubtotal(<< >>)>>)>>,
     <<Cac("TaxTotal", <<BareSubtotal(<< >>), TaxSubtotal(Txt5, Txt5)>>)>>}

PercentLines ==
    {Cac("InvoiceLine",
         <<Cbc("ID", TxtOne), Cbc("LineExtensionAmount", Txt100)>> \o taxTotal \o <<item>>) :
        taxTotal \in PercentTaxTotals, item \in LineItems}

\* allowances of 10, 2.50 and 0, charges of 5 and of -4 under the three
\* spellings of true, and an indicator that is neither true nor false
ValueAllowancePool ==
    {AllowanceCharge(TxtFalse, Txt10), AllowanceCharge(TxtFalse, Txt2p5),
     AllowanceCharge(TxtFalse, Txt0), AllowanceCharge(TxtUpperTrue, Txt5),
     AllowanceCharge(TxtOne, TxtMinus4), AllowanceCharge(TxtYes, Txt3)}

\* the line's allowances and charges, and one of a sub-line
AllowanceLines ==
    {Cac("InvoiceLine",
         <<Cbc("ID", TxtOne), Cbc("LineExtensionAmount", Txt100)>> \o charges
         \o <<Cac("SubInvoiceLine", <<AllowanceCharge(TxtTrue, Txt21)>>)>>) :
        charges \in DistinctSeqs(ValueAllowancePool, MaxValueAllowances)}

\* no quantity, a quantity of 2, one that is no number, one that starts as one
StatedQuantities ==
    {<< >>, <<Cbc("InvoicedQuantity", TxtTwo)>>, <<Cbc("InvoicedQuantity", TxtAbc)>>,
     <<Cbc("InvoicedQuantity", Txt2p5 \o TxtAbc)>>}

\* no Price, a Price without PriceAmount, a price of 10, one that is no number
StatedPrices ==
    {<< >>, <<Cac("Price", <<Cbc("BaseQuantity", TxtOne)>>)>>,
     <<Cac("Price", <<Cbc("PriceAmount", Txt10)>>)>>,
     <<Cac("Price", <<Cbc("PriceAmount", TxtAbc)>>)>>}

\* no sub-line, or one with a quantity of 10 of its own
QuantitySubLines ==
    {<< >>, <<Cac("SubInvoiceLine", <<Cbc("InvoicedQuantity", Txt10)>>)>>}

QuantityLines ==
    {Cac("InvoiceLine", <<Cbc("ID", TxtOne)>> \o quantity \o price \o subLine) :
        quantity \in StatedQuantities, price \in StatedPrices,
        subLine \in QuantitySubLines}

\* no LegalMonetaryTotal, or one whose amounts are no numbers
UnstatedTotals ==
    {<< >>,
     <<Cac("LegalMonetaryTotal",
           <<Cbc("LineExtensionAmount", TxtAbc), Cbc("PayableAmount", TxtBlank)>>)>>}

ValueDocs ==
    {WellFormed(RootElement("Invoice", <<RootId, line>>)) :
        line \in PercentLines \cup AllowanceLines}
    \cup
    {WellFormed(RootElement("Invoice", <<RootId>> \o total \o <<line>>)) :
        total \in UnstatedTotals \cup {<<MonetaryTotal(<< >>)>>}, line \in QuantityLines}

InitValues == InitWith(ValueDocs)

SpecValues == InitValues /\ [][Next]_vars

---------------------------------------------------------------------------
(* Documents whose texts are, one by one, a value or a way of writing that
   there is none: in the invoice period, the tax subtotals of the header and
   of the line, the payment means, the seller's contact, the delivery *)

TxtS == <<"S">>

TxtNA == <<"N", "/", "A">>

TxtLowerNa == <<"n", "a">>

TxtGent == <<"G", "e", "n", "t">>

\* <cac:TaxTotal> with one subtotal at 21 percent in the category of this ID
CategorizedTaxTotal(categoryId) ==
    Cac("TaxTotal",
        <<Cac("TaxSubtotal",
              <<Cbc("TaxAmount", Txt21),
                Cac("TaxCategory", <<Cbc("ID", categoryId), Cbc("Percent", Txt21)>>)>>)>>)

InvoicePeriod(descriptionCode) ==
    Cac("InvoicePeriod",
        <<Cbc("StartDate", TxtDate), Cbc("DescriptionCode", descriptionCode)>>)

ContactedSeller(contactName) ==
    Cac("AccountingSupplierParty",
        <<Cac("Party",
              <<Cac("PartyName", <<Cbc("Name", TxtAcme)>>),
                Cac("Contact", <<Cbc("Name", contactName)>>)>>)>>)

DeliveryTo(city) ==
    Cac("Delivery",
        <<Cac("DeliveryLocation", <<Cac("Address", <<Cbc("CityName", city)>>)>>)>>)

CategorizedLine(categoryId, reason) ==
    Cac("InvoiceLine",
        <<Cbc("ID", TxtOne), Cbc("LineExtensionAmount", Txt100),
          Cac("AllowanceCharge",
              <<Cbc("ChargeIndicator", TxtFalse), Cbc("AllowanceChargeReason", reason),
                Cbc("Amount", Txt10)>>),
          CategorizedTaxTotal(categoryId)>>)

DtoDocs ==
    {WellFormed(RootElement("Invoice",
        <<RootId, InvoicePeriod(code), ContactedSeller(contact), DeliveryTo(city),
          PaymentMeans(TxtCode30, <<Cbc("PaymentID", paymentId)>>),
          CategorizedTaxTotal(category), CategorizedLine(lineCategory, reason)>>)) :
        code \in {TxtS, TxtNA}, contact \in {TxtAcme, TxtLowerNa}, city \in {TxtGent, TxtNA},
        paymentId \in {TxtRef1, TxtLowerNa}, category \in {TxtS, TxtNA},
        lineCategory \in {TxtS, TxtLowerNa}, reason \in {TxtReturn, TxtNA}}

InitDto == InitWith(DtoDocs)

SpecDto == InitDto /\ [][Next]_vars

---------------------------------------------------------------------------
(* What the claims read off a call *)

Parsed == call.op = "parseUblInvoice"

Normalized == call.op = "normalizeUblResponse"

\* a call that returns the DTO and the raw echo has returned them
Echoed == call.op \in {"normalizeUblResponse", "parseUblInvoiceDocument"} /\ ~outcome.threw

\* the optional document a parseUblInvoice call returned
ParsedDoc == Val(outcome.value)

\* the DTO and the raw echo of a call that returned them
Extracted == Val(outcome.value).extracted

RawInvoice == Val(outcome.value).rawPayload.invoice

\* the children of parent that are <ns:tag> elements
ChildrenNamed(parent, ns, tag) ==
    SelectSeq(parent.kids, LAMBDA e : e.ns = ns /\ e.tag = tag)

\* the root has a cbc:ID of its own with a non-empty text
RootHasOwnId(root) ==
    \E i \in DOMAIN root.kids :
        /\ root.kids[i].ns = "cbc" /\ root.kids[i].tag = "ID"
        /\ trim(root.kids[i].text) # << >>

IsUblRoot(root) == root.tag \in {"Invoice", "CreditNote"}

---------------------------------------------------------------------------
(* C1..C4: the root, its id, and the failure of the parse *)

\* C1: parseUblInvoice returns null for every document whose root has no
\* non-empty cbc:ID child of its own, whatever stands below the root, and
\* every document it returns has a non-empty id.
C1_NoOwnIdIsNull ==
    Parsed =>
        /\ ~RootHasOwnId(xml.root) => ~IsSome(ParsedDoc)
        /\ IsSome(ParsedDoc) => Val(ParsedDoc).id # << >>

\* C2: a parse returns null or a document whose documentType is "Invoice"
\* or "CreditNote" and is the root's local name; any other root gives null.
C2_DocumentTypeIsRootName ==
    Parsed =>
        /\ IsSome(ParsedDoc) =>
            /\ Val(ParsedDoc).documentType \in {"Invoice", "CreditNote"}
            /\ Val(ParsedDoc).documentType = xml.root.tag
        /\ ~IsUblRoot(xml.root) => ~IsSome(ParsedDoc)

C2_Witness ==
    Parsed /\ IsSome(ParsedDoc) /\ Val(ParsedDoc).documentType = "CreditNote"

\* C3: a well-formed document whose root is Invoice or CreditNote and has an
\* ID of its own is parsed to a document, whatever else is missing.
C3_OwnIdIsParsed ==
    Parsed /\ xml.wellFormed /\ IsUblRoot(xml.root) /\ RootHasOwnId(xml.root)
        => IsSome(ParsedDoc)

\* C4: normalizeUblResponse throws "Failed to parse UBL invoice XML" exactly
\* when parseUblInvoice returns null for the same text, and otherwise
\* returns the whole pair {extracted, rawPayload}.
C4_ThrowsIffParseFails ==
    Normalized =>
        /\ outcome.threw <=> ~IsSome(parseUblInvoice(xml))
        /\ outcome.threw =>
            outcome.message = "Failed to parse UBL invoice XML" /\ ~IsSome(outcome.value)
        /\ ~outcome.threw =>
            /\ DOMAIN Val(outcome.value) = {"extracted", "rawPayload"}
            /\ Extracted.document_id = call.documentId
            /\ RawInvoice.id = Val(parseUblInvoice(xml)).id

C4_Witness == Normalized /\ outcome.threw /\ xml.wellFormed /\ IsUblRoot(xml.root)

---------------------------------------------------------------------------
(* C5, C6: attachments *)

\* the embedded binary objects of the document that carry a text
PayloadElements(root) ==
    SelectSeq(DescendantsOf(root.kids),
              LAMBDA e : /\ e.ns = "cbc" /\ e.tag = "EmbeddedDocumentBinaryObject"
                         /\ \E i \in DOMAIN e.text : e.text[i] \notin {" ", "\n", "\t", "\r"})

\* their texts, as written and without the white space around them
PayloadTexts(root) ==
    {PayloadElements(root)[i].text : i \in DOMAIN PayloadElements(root)}
    \cup {trim(PayloadElements(root)[i].text) : i \in DOMAIN PayloadElements(root)}

AttachmentFields == {"id", "filename", "mime_code", "description", "size_bytes"}

\* no entry keeps a base64Content field or a payload as the value of a field
NoPayloadIn(entries, payloads) ==
    \A i \in DOMAIN entries :
        /\ DOMAIN entries[i] = AttachmentFields
        /\ entries[i].size_bytes \in Int
        /\ \A f \in AttachmentFields \ {"size_bytes"} :
            \A pl \in payloads : entries[i][f] # Some(pl)

\* C5: no entry of rawPayload.invoice.attachments nor of
\* extracted.invoice.extra.attachments, as returned by normalizeUblResponse
\* and parseUblInvoiceDocument, has a base64Content field or a field whose
\* value is the payload text of the document.
C5_PayloadUnreachable ==
    Echoed =>
        /\ NoPayloadIn(RawInvoice.attachments, PayloadTexts(xml.root))
        /\ NoPayloadIn(Extracted.invoice.extra.attachments, PayloadTexts(xml.root))

C5_Witness ==
    /\ call.op = "parseUblInvoiceDocument" /\ ~outcome.threw
    /\ Len(RawInvoice.attachments) = 2
    /\ Len(Extracted.invoice.extra.attachments) = 2
    /\ IsSome(RawInvoice.attachments[1].description)

\* the base64 text without its white space
WithoutWhiteSpace(t) == SelectSeq(t, LAMBDA c : c \notin {" ", "\n", "\t", "\r"})

PadOf(t) ==
    IF Len(t) >= 2 /\ t[Len(t)] = "=" /\ t[Len(t) - 1] = "=" THEN 2
    ELSE IF Len(t) >= 1 /\ t[Len(t)] = "=" THEN 1
    ELSE 0

\* floor(L*3/4) - pad of a text without white space
DecodedSize(t) == ((Len(t) * 3) \div 4) - PadOf(t)

SizesAgree(entries, elements) ==
    /\ Len(entries) = Len(elements)
    /\ \A i \in DOMAIN entries :
        entries[i].size_bytes = DecodedSize(WithoutWhiteSpace(elements[i].text))

\* C6: the size_bytes of every attachment is floor(L*3/4) - pad, L the
\* length of its base64 text without white space, pad 2 when that text ends
\* in "==", 1 when it ends in one "=", 0 otherwise.
C6_SizeBytes ==
    Echoed =>
        /\ SizesAgree(RawInvoice.attachments, PayloadElements(xml.root))
        /\ SizesAgree(Extracted.invoice.extra.attachments, PayloadElements(xml.root))

C6_Witness ==
    /\ Normalized /\ ~outcome.threw
    /\ Len(RawInvoice.attachments) = 2
    /\ RawInvoice.attachments[1].size_bytes = 1
    /\ RawInvoice.attachments[2].size_bytes = 2

---------------------------------------------------------------------------
(* C7, C8: the tax amount and the discount of a line *)

\* the lines of the document, which stand below its root
LineElements(root) == ChildrenNamed(root, "cac", "InvoiceLine")

\* the number a cbc element states
NumberIn(el) == parseFloat(trim(el.text))

\* the TaxAmount children of the line's first own TaxTotal
OwnTaxAmounts(line) ==
    IF ChildrenNamed(line, "cac", "TaxTotal") = << >> THEN << >>
    ELSE ChildrenNamed(ChildrenNamed(line, "cac", "TaxTotal")[1], "cbc", "TaxAmount")

\* the TaxSubtotal children of the line's first own TaxTotal
OwnSubtotals(line) ==
    IF ChildrenNamed(line, "cac", "TaxTotal") = << >> THEN << >>
    ELSE ChildrenNamed(ChildrenNamed(line, "cac", "TaxTotal")[1], "cac", "TaxSubtotal")

SubtotalAmount(sub) == Val(NumberIn(ChildrenNamed(sub, "cbc", "TaxAmount")[1]))

OwnLineExtension(line) ==
    Val(NumberIn(ChildrenNamed(line, "cbc", "LineExtensionAmount")[1]))

\* round(base * percent / 100, 2), amounts and percent in hundredths
RoundedTax(base, percent) ==
    IF (2 * ((base * percent) % 10000)) >= 10000
    THEN ((base * percent) \div 10000) + 1
    ELSE (base * percent) \div 10000

\* the tax amount the order of C7 gives the line, taxPercent being the
\* percent the parser determined for it
TaxAmountInOrder(line, taxPercent) ==
    IF OwnTaxAmounts(line) # << >> THEN NumberIn(OwnTaxAmounts(line)[1])
    ELSE IF OwnSubtotals(line) # << >>
    THEN Some(SumSeq([i \in 1..Len(OwnSubtotals(line)) |->
                        SubtotalAmount(OwnSubtotals(line)[i])]))
    ELSE IF IsSome(taxPercent)
    THEN Some(RoundedTax(OwnLineExtension(line), Val(taxPercent)))
    ELSE None

LinesInOrder(lines, elements) ==
    /\ Len(lines) = Len(elements)
    /\ \A i \in DOMAIN lines :
        lines[i].taxAmount = TaxAmountInOrder(elements[i], lines[i].taxPercent)

\* C7: a line's taxAmount is the TaxAmount of the line's own TaxTotal; else
\* the sum of the line's tax subtotals if it has any; else
\* round(lineExtensionAmount * taxPercent / 100, 2) if it has a tax percent;
\* else undefined.
C7_LineTaxAmountOrder ==
    Parsed /\ IsSome(ParsedDoc) =>
        LinesInOrder(Val(ParsedDoc).lines, LineElements(xml.root))

\* the explicit amount 5.5 wins over one subtotal of 21 and over 21 percent of 100
C7_Witness ==
    /\ Parsed /\ IsSome(ParsedDoc) /\ Len(Val(ParsedDoc).lines) = 1
    /\ OwnTaxAmounts(LineElements(xml.root)[1]) # << >>
    /\ OwnSubtotals(LineElements(xml.root)[1]) # << >>
    /\ Val(ParsedDoc).lines[1].lineExtensionAmount = 10000
    /\ Val(ParsedDoc).lines[1].taxPercent = Some(2100)
    /\ Val(ParsedDoc).lines[1].taxAmount = Some(550)

\* the allowances and charges of the line, as <<indicator, amount>>
OwnCharges(line) ==
    [i \in 1..Len(ChildrenNamed(line, "cac", "AllowanceCharge")) |->
        <<trim(ChildrenNamed(ChildrenNamed(line, "cac", "AllowanceCharge")[i],
                             "cbc", "ChargeIndicator")[1].text),
          NumberIn(ChildrenNamed(ChildrenNamed(line, "cac", "AllowanceCharge")[i],
                                 "cbc", "Amount")[1])>>]

\* the Percent of the line's classified tax category, if the item has one
OwnCategoryPercents(line) ==
    IF ChildrenNamed(ChildrenNamed(line, "cac", "Item")[1], "cac",
                     "ClassifiedTaxCategory") = << >>
    THEN << >>
    ELSE ChildrenNamed(ChildrenNamed(ChildrenNamed(line, "cac", "Item")[1], "cac",
                                     "ClassifiedTaxCategory")[1], "cbc", "Percent")

\* the line of scenario B on a line extension amount of base: no TaxAmount
\* and no subtotal of its own, one allowance of 10, a 21 percent category
AllowanceScenario(line, base) ==
    /\ OwnTaxAmounts(line) = << >>
    /\ OwnSubtotals(line) = << >>
    /\ OwnCharges(line) = << <<TxtFalse, Some(1000)>> >>
    /\ OwnLineExtension(line) = base
    /\ OwnCategoryPercents(line) # << >>
    /\ NumberIn(OwnCategoryPercents(line)[1]) = Some(2100)

\* C8: the line of scenario B on a line extension amount of 100 has
\* discount_amount 10 and tax_amount 18.9, the tax on the reduced base 90.
C8_TaxOnReducedBase ==
    Echoed /\ AllowanceScenario(LineElements(xml.root)[1], 10000) =>
        /\ Extracted.line_items[1].discount_amount = Some(1000)
        /\ Extracted.line_items[1].tax_amount = Some(1890)

\* C8, as the code has it: the line of scenario B has discount_amount 10 and
\* the tax_amount is 21 percent of the LineExtensionAmount the document
\* states, from which the allowance is not subtracted: 21 on 100, and 18.9
\* when the document states 90.
C8_TaxOnStatedBase ==
    /\ Echoed /\ AllowanceScenario(LineElements(xml.root)[1], 10000) =>
        /\ Extracted.line_items[1].discount_amount = Some(1000)
        /\ Extracted.line_items[1].amount = Some(10000)
        /\ Extracted.line_items[1].tax_amount = Some(2100)
    /\ Echoed /\ AllowanceScenario(LineElements(xml.root)[1], 9000) =>
        /\ Extracted.line_items[1].discount_amount = Some(1000)
        /\ Extracted.line_items[1].amount = Some(9000)
        /\ Extracted.line_items[1].tax_amount = Some(1890)

C8_Witness ==
    /\ Normalized /\ ~outcome.threw
    /\ AllowanceScenario(LineElements(xml.root)[1], 10000)
    /\ Extracted.line_items[1].tax_amount = Some(2100)

---------------------------------------------------------------------------
(* C9, C10: the totals of the header *)

\* the sum of the TaxAmount of the TaxSubtotal children of one TaxTotal
SubtotalSumOf(taxTotal) ==
    SumSeq([j \in 1..Len(ChildrenNamed(taxTotal, "cac", "TaxSubtotal")) |->
                SubtotalAmount(ChildrenNamed(taxTotal, "cac", "TaxSubtotal")[j])])

\* the number and the sum of the tax subtotals of the header
HeaderSubtotalCount(root) ==
    SumSeq([i \in 1..Len(ChildrenNamed(root, "cac", "TaxTotal")) |->
                Len(ChildrenNamed(ChildrenNamed(root, "cac", "TaxTotal")[i],
                                  "cac", "TaxSubtotal"))])

HeaderSubtotalSum(root) ==
    SumSeq([i \in 1..Len(ChildrenNamed(root, "cac", "TaxTotal")) |->
                SubtotalSumOf(ChildrenNamed(root, "cac", "TaxTotal")[i])])

\* the elements named tag that the LegalMonetaryTotal of the root carries
StatedTotals(root, tag) ==
    IF ChildrenNamed(root, "cac", "LegalMonetaryTotal") = << >> THEN << >>
    ELSE ChildrenNamed(ChildrenNamed(root, "cac", "LegalMonetaryTotal")[1], "cbc", tag)

\* the amount the LegalMonetaryTotal states under tag, 0 when it states none
StatedAmount(root, tag) ==
    IF StatedTotals(root, tag) = << >> THEN 0
    ELSE Val(NumberIn(StatedTotals(root, tag)[1]))

HeaderChargeSum(root, indicator) ==
    SumSeq([i \in 1..Len(OwnCharges(root)) |->
                IF (OwnCharges(root)[i][1] \in {TxtTrue, TxtOne}) = indicator
                THEN Abs(Val(OwnCharges(root)[i][2]))
                ELSE 0])

\* the total C10 gives: the amount stated under tag, else the sum over the
\* header's allowances or charges, else null
TotalByPreference(root, tag, indicator) ==
    IF StatedTotals(root, tag) # << >> THEN NumberIn(StatedTotals(root, tag)[1])
    ELSE IF Len(OwnCharges(root)) > 0 THEN Some(HeaderChargeSum(root, indicator))
    ELSE None

\* C10: discount_total (shipping_total) is the AllowanceTotalAmount
\* (ChargeTotalAmount) of the LegalMonetaryTotal whenever the document
\* carries it; else the sum of |amount| over the header's allowances
\* (charges) when the root has an AllowanceCharge child; else null.
C10_HeaderTotals ==
    Echoed =>
        /\ Extracted.invoice.discount_total =
            TotalByPreference(xml.root, "AllowanceTotalAmount", FALSE)
        /\ Extracted.invoice.shipping_total =
            TotalByPreference(xml.root, "ChargeTotalAmount", TRUE)

---------------------------------------------------------------------------
(* C11: the amount paid *)

\* the amount C11 gives: the PrepaidAmount stated, else total - amount_due
\* when total exceeds amount_due, else null
PaidByPreference(root, total, amountDue) ==
    IF StatedTotals(root, "PrepaidAmount") # << >>
    THEN NumberIn(StatedTotals(root, "PrepaidAmount")[1])
    ELSE IF IsSome(total) /\ IsSome(amountDue) /\ Val(total) > Val(amountDue)
    THEN Some(Val(total) - Val(amountDue))
    ELSE None

\* C11: amount_paid is the PrepaidAmount of the LegalMonetaryTotal whenever
\* the document carries it; else total - amount_due when both are known and
\* total > amount_due; else null.
C11_AmountPaid ==
    Echoed =>
        Extracted.invoice.amount_paid =
            PaidByPreference(xml.root, Extracted.invoice.total,
                             Extracted.invoice.amount_due)

---------------------------------------------------------------------------
(* C12: text normalization *)

\* the value of the attribute of el, if el carries it
StatedAttribute(el, name) ==
    IF \E a \in el.attrs : a[1] = name
    THEN Some((CHOOSE a \in el.attrs : a[1] = name)[2])
    ELSE None

\* the unitCode the document's line states, the filename its attachment states
StatedUnitCode(root) ==
    StatedAttribute(ChildrenNamed(LineElements(root)[1], "cbc", "InvoicedQuantity")[1],
                    "unitCode")

StatedFilename(root) == StatedAttribute(PayloadElements(root)[1], "filename")

\* the text that normalizing value is to give
NormalizedOf(value) == (CHOOSE row \in NormalizedTexts : row[1] = value)[2]

\* C12: text normalization gives null for an absent, empty or blank text
\* and for "NA" and "N/A" in any letter case after trimming, and gives
\* every other text trimmed, its letter case kept.
C12_NormalizeText ==
    Echoed =>
        /\ Extracted.line_items[1].unit = NormalizedOf(StatedUnitCode(xml.root))
        /\ Extracted.invoice.extra.attachments[1].filename =
            NormalizedOf(StatedFilename(xml.root))
        /\ RawInvoice.attachments[1].filename = NormalizedOf(StatedFilename(xml.root))

C12_Witness ==
    /\ Normalized /\ ~outcome.threw
    /\ StatedUnitCode(xml.root) = Some(<<" ", "P", "o", " ", "1", " ">>)
    /\ StatedFilename(xml.root) = Some(<<" ", "n", "/", "A", " ">>)
    /\ Extracted.line_items[1].unit = Some(<<"P", "o", " ", "1">>)
    /\ Extracted.invoice.extra.attachments[1].filename = None

---------------------------------------------------------------------------
(* C13, C19: payment means *)

\* the PaymentMeans elements of the document, which stand below its root
PaymentMeansElements(root) == ChildrenNamed(root, "cac", "PaymentMeans")

\* the ID that the PayeeFinancialAccount of a PaymentMeans element states
StatedIban(pm) ==
    IF ChildrenNamed(pm, "cac", "PayeeFinancialAccount") = << >> THEN None
    ELSE IF ChildrenNamed(ChildrenNamed(pm, "cac", "PayeeFinancialAccount")[1],
                          "cbc", "ID") = << >>
    THEN None
    ELSE Some(ChildrenNamed(ChildrenNamed(pm, "cac", "PayeeFinancialAccount")[1],
                            "cbc", "ID")[1].text)

\* C13: payment_means_list has one entry for each PaymentMeans element of
\* the document, in document order, and entry i carries the IBAN, the ID of
\* the payee financial account, of the i-th element.
C13_PaymentMeansList ==
    Echoed =>
        /\ Len(Extracted.invoice.extra.payment_means_list)
            = Len(PaymentMeansElements(xml.root))
        /\ \A i \in DOMAIN Extracted.invoice.extra.payment_means_list :
            Extracted.invoice.extra.payment_means_list[i].iban
                = StatedIban(PaymentMeansElements(xml.root)[i])

\* C19: paymentMeans is the first element of paymentMeansList, and both are
\* absent exactly when the document has no PaymentMeans element, the list
\* never being empty; supplier.iban and supplier.bic of the DTO are those of
\* the first element of the list.
C19_FirstPaymentMeans ==
    /\ Parsed /\ IsSome(ParsedDoc) =>
        /\ IsSome(Val(ParsedDoc).paymentMeansList)
            <=> PaymentMeansElements(xml.root) # << >>
        /\ IsSome(Val(ParsedDoc).paymentMeans)
            <=> PaymentMeansElements(xml.root) # << >>
        /\ IsSome(Val(ParsedDoc).paymentMeansList) =>
            /\ Len(Val(Val(ParsedDoc).paymentMeansList))
                = Len(PaymentMeansElements(xml.root))
            /\ Val(ParsedDoc).paymentMeans
                = Some(Val(Val(ParsedDoc).paymentMeansList)[1])
    /\ Echoed =>
        /\ ~IsSome(RawInvoice.paymentMeansList) =>
            Extracted.invoice.supplier.iban = None /\ Extracted.invoice.supplier.bic = None
        /\ IsSome(RawInvoice.paymentMeansList) =>
            /\ Extracted.invoice.supplier.iban = Val(RawInvoice.paymentMeansList)[1].iban
            /\ Extracted.invoice.supplier.bic = Val(RawInvoice.paymentMeansList)[1].bic

\* two payment means, the first with IBAN and BIC, the second with another IBAN
C19_Witness ==
    /\ Normalized /\ ~outcome.threw
    /\ Len(PaymentMeansElements(xml.root)) = 2
    /\ Extracted.invoice.supplier.iban = Some(TxtIban1)
    /\ Extracted.invoice.supplier.bic = Some(TxtBic1)
    /\ Val(RawInvoice.paymentMeansList)[2].iban = Some(TxtIban2)

---------------------------------------------------------------------------
(* C14: credit notes *)

\* C14: the credit note that an invoice becomes by renaming its root, its
\* InvoiceLine and its InvoicedQuantity elements is parsed to the invoice's
\* document model with documentType CreditNote, every other field equal,
\* and is normalized to the invoice's DTO with document_type CreditNote.
C14_CreditNoteAsInvoice ==
    /\ Parsed /\ xml.root.tag = "Invoice" =>
        /\ IsSome(ParsedDoc) /\ IsSome(parseUblInvoice(RenamedText(xml)))
        /\ Val(parseUblInvoice(RenamedText(xml)))
            = [Val(ParsedDoc) EXCEPT !.documentType = "CreditNote"]
    /\ Normalized /\ xml.root.tag = "Invoice" =>
        /\ ~outcome.threw
        /\ ~normalizeUblResponse(RenamedText(xml), call.documentId).threw
        /\ Val(normalizeUblResponse(RenamedText(xml), call.documentId).value).extracted
            = [Extracted EXCEPT !.invoice.extra.document_type = "CreditNote"]

\* an invoice of two lines, the first with quantity 1 of unit C62
C14_Witness ==
    /\ Parsed /\ xml.root.tag = "Invoice" /\ IsSome(ParsedDoc)
    /\ RenamedText(xml) \in CreditDocs
    /\ Len(Val(ParsedDoc).lines) = 2
    /\ Val(ParsedDoc).lines[1].quantity = 100
    /\ Val(ParsedDoc).lines[1].unitCode = TxtC62
    /\ Val(ParsedDoc).monetaryTotal.taxInclusiveAmount = 12100

---------------------------------------------------------------------------
(* C15: no state across calls *)

\* the entry point and the arguments of the call that follows are those of
\* the call that was made last
SameCallAgain == call' = call /\ call.op # "none"

---------------------------------------------------------------------------
(* C16: the byte order mark *)

\* C16: decodeXmlBytes removes one leading U+FEFF when the input starts with
\* one and nothing otherwise; what follows that first code point, a further
\* U+FEFF included, is returned as decoded.
C16_OneBomRemoved ==
    call.op = "decodeXmlBytes" =>
        Val(outcome.value) =
            [xml EXCEPT !.bom = IF call.bom > 0 THEN call.bom - 1 ELSE 0]

---------------------------------------------------------------------------
(* C17: header and lines *)

\* the allowances and charges stated by the children of parent, as
\* <<is a charge, amount>>
StatedCharges(parent) ==
    [i \in 1..Len(OwnCharges(parent)) |->
        <<OwnCharges(parent)[i][1] \in {TxtTrue, TxtOne}, Val(OwnCharges(parent)[i][2])>>]

\* the same of the allowances and charges parsed
ChargesAsStated(charges) ==
    [i \in 1..Len(charges) |-> <<charges[i].chargeIndicator, charges[i].amount>>]

\* the tax amounts of the TaxSubtotal children of one TaxTotal
SubtotalAmountsOf(taxTotal) ==
    [j \in 1..Len(ChildrenNamed(taxTotal, "cac", "TaxSubtotal")) |->
        SubtotalAmount(ChildrenNamed(taxTotal, "cac", "TaxSubtotal")[j])]

RECURSIVE SubtotalAmountsIn(_)
\* the same of a list of TaxTotal elements, one after the other
SubtotalAmountsIn(taxTotals) ==
    IF taxTotals = << >> THEN << >>
    ELSE SubtotalAmountsOf(Head(taxTotals)) \o SubtotalAmountsIn(Tail(taxTotals))

TaxAmountsOf(subtotals) == [i \in 1..Len(subtotals) |-> subtotals[i].taxAmount]

OrEmpty(list) == IF IsSome(list) THEN Val(list) ELSE << >>

\* the header of doc and each of its lines keep to their own children
KeptApart(doc, root) ==
    /\ ChargesAsStated(doc.allowanceCharges) = StatedCharges(root)
    /\ TaxAmountsOf(doc.taxSubtotals)
        = SubtotalAmountsIn(ChildrenNamed(root, "cac", "TaxTotal"))
    /\ Len(doc.lines) = Len(LineElements(root))
    /\ \A i \in DOMAIN doc.lines :
        /\ ChargesAsStated(OrEmpty(doc.lines[i].allowanceCharges))
            = StatedCharges(LineElements(root)[i])
        /\ TaxAmountsOf(OrEmpty(doc.lines[i].taxSubtotals))
            = SubtotalAmountsIn(ChildrenNamed(LineElements(root)[i], "cac", "TaxTotal"))

\* C17: the document's allowanceCharges are the AllowanceCharge children of
\* the root and no line's, each line's allowanceCharges are that line's
\* children, and the header taxSubtotals are the TaxSubtotal children of the
\* root's TaxTotal children, one TaxTotal after the other, and no line's.
C17_HeaderAndLinesApart ==
    Parsed /\ IsSome(ParsedDoc) => KeptApart(Val(ParsedDoc), xml.root)

\* two header TaxTotal elements with three subtotals between them, a header
\* charge, and a line with an allowance and a subtotal of its own
C17_Witness ==
    /\ Parsed /\ IsSome(ParsedDoc)
    /\ Len(ChildrenNamed(xml.root, "cac", "TaxTotal")) = 2
    /\ TaxAmountsOf(Val(ParsedDoc).taxSubtotals) = <<250, 2100, 2100>>
    /\ ChargesAsStated(Val(ParsedDoc).allowanceCharges) = << <<TRUE, 500>> >>
    /\ Len(Val(ParsedDoc).lines) = 1
    /\ ChargesAsStated(OrEmpty(Val(ParsedDoc).lines[1].allowanceCharges))
        = << <<FALSE, 500>> >>
    /\ TaxAmountsOf(OrEmpty(Val(ParsedDoc).lines[1].taxSubtotals)) = <<300>>

---------------------------------------------------------------------------
(* C18: notes *)

\* the trimmed texts of the Note children of parent, in document order
NoteTexts(parent) ==
    [i \in 1..Len(ChildrenNamed(parent, "cbc", "Note")) |->
        trim(ChildrenNamed(parent, "cbc", "Note")[i].text)]

\* the note that the root states: the non-empty ones joined by a newline
StatedNote(root) ==
    IF SelectSeq(NoteTexts(root), LAMBDA t : t # << >>) = << >> THEN None
    ELSE Some(JoinWith(SelectSeq(NoteTexts(root), LAMBDA t : t # << >>), <<"\n">>))

RECURSIVE TermsOfLines(_)
\* the PaymentTerms children of a list of lines
TermsOfLines(lines) ==
    IF lines = << >> THEN << >>
    ELSE ChildrenNamed(Head(lines), "cac", "PaymentTerms") \o TermsOfLines(Tail(lines))

\* the PaymentTerms elements of the document, in document order
TermsElements(root) ==
    ChildrenNamed(root, "cac", "PaymentTerms") \o TermsOfLines(LineElements(root))

\* the text of the Note of the document's first PaymentTerms
StatedTermsNote(root) ==
    IF TermsElements(root) = << >> THEN None
    ELSE IF NoteTexts(TermsElements(root)[1]) = << >> THEN None
    ELSE IF NoteTexts(TermsElements(root)[1])[1] = << >> THEN None
    ELSE Some(NoteTexts(TermsElements(root)[1])[1])

\* a text that is the text of a Note child of the root
IsRootNoteText(root, t) == \E i \in DOMAIN NoteTexts(root) : NoteTexts(root)[i] = t

\* C18: the document's note is the non-empty trimmed texts of the Note
\* children of the root joined by newlines in document order, absent when
\* there is none, whatever Note there is in PaymentTerms, in a line or in a
\* party; paymentTermsNote, and payment_terms with it, is the Note of
\* PaymentTerms and never a Note of the root.
C18_Notes ==
    /\ Parsed /\ IsSome(ParsedDoc) =>
        /\ Val(ParsedDoc).note = StatedNote(xml.root)
        /\ Val(ParsedDoc).paymentTermsNote = StatedTermsNote(xml.root)
        /\ IsSome(Val(ParsedDoc).paymentTermsNote) =>
            ~IsRootNoteText(xml.root, Val(Val(ParsedDoc).paymentTermsNote))
    /\ Echoed =>
        /\ Extracted.invoice.extra.note = StatedNote(xml.root)
        /\ Extracted.invoice.payment_terms = StatedTermsNote(xml.root)

\* two root notes joined, PaymentTerms with a Note of its own, and a Note
\* in the line and in the seller's contact
C18_Witness ==
    /\ Parsed /\ IsSome(ParsedDoc)
    /\ Val(ParsedDoc).note = Some(<<"S", "e", "c", "o", "n", "d", "\n", "F", "i", "r", "s", "t">>)
    /\ Val(ParsedDoc).paymentTermsNote = Some(<<"N", "e", "t", " ", "3", "0">>)
    /\ \E i \in DOMAIN xml.root.kids :
        /\ xml.root.kids[i].tag = "InvoiceLine"
        /\ NoteTexts(xml.root.kids[i]) = <<TxtLineNote>>
    /\ \E i \in DOMAIN xml.root.kids :
        /\ xml.root.kids[i].tag = "AccountingSupplierParty"
        /\ Len(xml.root.kids[i].kids[1].kids[1].kids) = 2

---------------------------------------------------------------------------
(* C20: seller and buyer *)

\* the Party of the document's wrapper for a role, if it has both
StatedParty(root, role) ==
    IF ChildrenNamed(root, "cac", role) = << >> THEN None
    ELSE First(ChildrenNamed(ChildrenNamed(root, "cac", role)[1], "cac", "Party"))

\* the name a Party element states: "" when it states none
StatedPartyName(party) ==
    IF ChildrenNamed(party, "cac", "PartyName") = << >> THEN << >>
    ELSE IF ChildrenNamed(ChildrenNamed(party, "cac", "PartyName")[1], "cbc", "Name") = << >>
    THEN << >>
    ELSE trim(ChildrenNamed(ChildrenNamed(party, "cac", "PartyName")[1], "cbc", "Name")[1].text)

\* the fields of a party other than its name
OptionalPartyFields ==
    {"registrationName", "companyLegalForm", "vatId", "taxSchemeId", "companyId",
     "endpointId", "endpointSchemeId", "address", "contact"}

\* a party that is a name and nothing else
IsNameOnly(party, name) ==
    /\ DOMAIN party = {"name"} \cup OptionalPartyFields
    /\ party.name = name
    /\ \A f \in OptionalPartyFields : party[f] = None

\* the parsed party is what the document says for the role
PartyAsStated(party, root, role) ==
    IF IsSome(StatedParty(root, role))
    THEN party.name = StatedPartyName(Val(StatedParty(root, role)))
    ELSE IsNameOnly(party, <<"U", "n", "k", "n", "o", "w", "n">>)

\* C20: a document whose seller or buyer cannot be found is returned all the
\* same, and every document returned has a seller and a buyer with a name
\* that is a text: the name the Party states, and for a role without wrapper
\* or without Party in it the party that is the name "Unknown" and nothing
\* else.
C20_PartiesPresent ==
    Parsed =>
        /\ IsSome(ParsedDoc)
        /\ {"seller", "buyer"} \subseteq DOMAIN Val(ParsedDoc)
        /\ PartyAsStated(Val(ParsedDoc).seller, xml.root, "AccountingSupplierParty")
        /\ PartyAsStated(Val(ParsedDoc).buyer, xml.root, "AccountingCustomerParty")

\* no wrapper for the seller, a wrapper without Party for the buyer
C20_Witness ==
    /\ Parsed /\ IsSome(ParsedDoc)
    /\ ChildrenNamed(xml.root, "cac", "AccountingSupplierParty") = << >>
    /\ ChildrenNamed(xml.root, "cac", "AccountingCustomerParty") # << >>
    /\ ~IsSome(StatedParty(xml.root, "AccountingCustomerParty"))
    /\ Val(ParsedDoc).seller = Val(ParsedDoc).buyer
    /\ Val(ParsedDoc).seller.name = <<"U", "n", "k", "n", "o", "w", "n">>

---------------------------------------------------------------------------
(* C21: the company id of a party *)

\* the non-empty trimmed text of the first <cbc:tag> child of the first
\* <cac:aggregate> child of party, if there is one
StatedIn(party, aggregate, tag) ==
    IF ChildrenNamed(party, "cac", aggregate) = << >> THEN None
    ELSE IF ChildrenNamed(ChildrenNamed(party, "cac", aggregate)[1], "cbc", tag) = << >>
    THEN None
    ELSE IF trim(ChildrenNamed(ChildrenNamed(party, "cac", aggregate)[1], "cbc", tag)[1].text)
            = << >>
    THEN None
    ELSE Some(trim(ChildrenNamed(ChildrenNamed(party, "cac", aggregate)[1], "cbc", tag)[1].text))

\* the company id by preference: the legal entity's, else the identification's
StatedCompanyId(party) ==
    IF IsSome(StatedIn(party, "PartyLegalEntity", "CompanyID"))
    THEN StatedIn(party, "PartyLegalEntity", "CompanyID")
    ELSE StatedIn(party, "PartyIdentification", "ID")

\* C21: companyId is the CompanyID of the party's PartyLegalEntity when that
\* is present and not empty and otherwise the ID of its PartyIdentification,
\* also for a party with a PartyLegalEntity that has no CompanyID.
C21_CompanyId ==
    Parsed /\ IsSome(ParsedDoc) =>
        /\ Val(ParsedDoc).seller.companyId
            = StatedCompanyId(Val(StatedParty(xml.root, "AccountingSupplierParty")))
        /\ Val(ParsedDoc).buyer.companyId
            = StatedCompanyId(Val(StatedParty(xml.root, "AccountingCustomerParty")))

\* the same for the parties that have no legal entity or one with a CompanyID
C21_CompanyIdOfEntity ==
    Parsed /\ IsSome(ParsedDoc) =>
        LET party == Val(StatedParty(xml.root, "AccountingSupplierParty"))
        IN  (ChildrenNamed(party, "cac", "PartyLegalEntity") = << >>
                \/ IsSome(StatedIn(party, "PartyLegalEntity", "CompanyID")))
            => Val(ParsedDoc).seller.companyId = StatedCompanyId(party)

---------------------------------------------------------------------------
(* C22: the tax percent of a line *)

\* the Percent that the TaxCategory child of a subtotal states, if any
StatedSubtotalPercent(sub) ==
    IF ChildrenNamed(sub, "cac", "TaxCategory") = << >> THEN None
    ELSE IF ChildrenNamed(ChildrenNamed(sub, "cac", "TaxCategory")[1], "cbc", "Percent") = << >>
    THEN None
    ELSE NumberIn(ChildrenNamed(ChildrenNamed(sub, "cac", "TaxCategory")[1], "cbc", "Percent")[1])

\* the percent of the first tax subtotal of the line's own TaxTotal, if any
FirstSubtotalPercent(line) ==
    IF OwnSubtotals(line) = << >> THEN None ELSE StatedSubtotalPercent(OwnSubtotals(line)[1])

\* the ClassifiedTaxCategory elements of the line's Item
ItemCategories(line) ==
    IF ChildrenNamed(line, "cac", "Item") = << >> THEN << >>
    ELSE ChildrenNamed(ChildrenNamed(line, "cac", "Item")[1], "cac", "ClassifiedTaxCategory")

\* the percent of the item's tax category: 0 when the category states none
ItemCategoryPercent(line) ==
    IF ChildrenNamed(ItemCategories(line)[1], "cbc", "Percent") = << >> THEN Some(0)
    ELSE NumberIn(ChildrenNamed(ItemCategories(line)[1], "cbc", "Percent")[1])

\* the percent by preference; a line with a subtotal without percent and
\* without tax category of the item is left open
PercentByPreference(line, taxPercent) ==
    IF IsSome(FirstSubtotalPercent(line)) THEN taxPercent = FirstSubtotalPercent(line)
    ELSE IF ItemCategories(line) # << >> THEN taxPercent = ItemCategoryPercent(line)
    ELSE OwnSubtotals(line) = << >> => taxPercent = None

\* C22: a line's taxPercent is the percent of its first own tax subtotal
\* when that gives one and otherwise the percent of the item's
\* ClassifiedTaxCategory, also for a line whose subtotal carries no percent;
\* it is absent when the line has neither.
C22_TaxPercent ==
    Parsed /\ IsSome(ParsedDoc) =>
        \A i \in DOMAIN Val(ParsedDoc).lines :
            PercentByPreference(LineElements(xml.root)[i], Val(ParsedDoc).lines[i].taxPercent)

\* the same for the lines without subtotal or whose first one gives a percent
C22_TaxPercentStated ==
    Parsed /\ IsSome(ParsedDoc) =>
        \A i \in DOMAIN Val(ParsedDoc).lines :
            (OwnSubtotals(LineElements(xml.root)[i]) = << >>
                \/ IsSome(FirstSubtotalPercent(LineElements(xml.root)[i])))
            => PercentByPreference(LineElements(xml.root)[i],
                                   Val(ParsedDoc).lines[i].taxPercent)

---------------------------------------------------------------------------
(* C23: the optional texts of the DTO *)

\* an optional text that is absent, or trimmed, not empty and neither "NA"
\* nor "N/A" in any letter case
IsNormalized(value) ==
    \/ ~IsSome(value)
    \/ /\ Val(value) # << >>
       /\ trim(Val(value)) = Val(value)
       /\ toUpperCase(Val(value)) \notin {<<"N", "A">>, <<"N", "/", "A">>}

\* the fields named of a record are normalized
FieldsNormalized(record, fields) == \A f \in fields : IsNormalized(record[f])

\* the same of every record of a list
EachNormalized(list, fields) == \A i \in DOMAIN list : FieldsNormalized(list[i], fields)

\* the same of an optional record
OptionNormalized(record, fields) == IsSome(record) => FieldsNormalized(Val(record), fields)

PaymentMeansTexts == {"code", "code_name", "payment_id", "iban", "bic", "account_name"}

PartyTexts ==
    {"endpoint_id", "endpoint_scheme_id", "registration_name", "company_legal_form",
     "tax_scheme_id", "contact_name", "contact_phone", "contact_email"}

AddressTexts == {"line1", "line2", "city", "state", "postal_code", "country"}

ChargeTexts == {"reason", "reason_code", "tax_category_id", "tax_scheme_id"}

SubtotalTexts == {"taxCategoryId", "taxSchemeId", "taxExemptionReason"}

PeriodTexts == {"startDate", "endDate", "descriptionCode"}

\* the texts of the invoice other than the period's and the subtotals'
InvoiceTextsNormalized(invoice) ==
    /\ FieldsNormalized(invoice, {"invoice_number", "payment_terms", "po_number"})
    /\ FieldsNormalized(invoice.supplier, {"name", "tax_id", "iban", "bic"})
    /\ FieldsNormalized(invoice.receiver, {"name", "tax_id"})
    /\ FieldsNormalized(invoice.extra,
            {"customization_id", "profile_id", "invoice_type_code", "buyer_reference",
             "order_reference_id", "sales_order_id", "contract_reference",
             "project_reference", "note"})
    /\ OptionNormalized(invoice.extra.payment_means, PaymentMeansTexts)
    /\ EachNormalized(invoice.extra.payment_means_list, PaymentMeansTexts)
    /\ IsSome(invoice.extra.delivery) =>
            OptionNormalized(Val(invoice.extra.delivery).address, AddressTexts)
    /\ FieldsNormalized(invoice.extra.supplier, PartyTexts)
    /\ FieldsNormalized(invoice.extra.receiver, PartyTexts)
    /\ OptionNormalized(invoice.extra.supplier_address_structured, AddressTexts)
    /\ OptionNormalized(invoice.extra.receiver_address_structured, AddressTexts)
    /\ EachNormalized(invoice.extra.allowance_charges, ChargeTexts)
    /\ EachNormalized(invoice.extra.attachments, {"id", "filename", "mime_code", "description"})

\* the texts of a line item other than its subtotals'
LineTextsNormalized(item) ==
    /\ FieldsNormalized(item, {"unit", "product_code"})
    /\ FieldsNormalized(item.extra,
            {"ubl_line_id", "item_name", "sellers_item_id", "buyers_item_id",
             "tax_category_id", "tax_scheme_id"})
    /\ EachNormalized(item.extra.allowance_charges, ChargeTexts)

\* the texts of the invoice period and of the tax subtotals
NestedTextsNormalized(extracted) ==
    /\ OptionNormalized(extracted.invoice.extra.invoice_period, PeriodTexts)
    /\ EachNormalized(extracted.invoice.extra.tax_subtotals, SubtotalTexts)
    /\ \A i \in DOMAIN extracted.line_items :
            EachNormalized(extracted.line_items[i].extra.tax_subtotals, SubtotalTexts)

\* the texts that the normalizer passes through normalizeText
PassedTextsNormalized(extracted) ==
    /\ InvoiceTextsNormalized(extracted.invoice)
    /\ \A i \in DOMAIN extracted.line_items : LineTextsNormalized(extracted.line_items[i])

\* C23: every optional text of the DTO, those of invoice.extra and of the
\* line items' extra with their invoice period, tax subtotals, payment
\* means, parties and delivery included, is absent or a trimmed text that
\* is not empty and neither "NA" nor "N/A" in any letter case.
C23_EveryTextNormalized ==
    Echoed => PassedTextsNormalized(Extracted) /\ NestedTextsNormalized(Extracted)

\* the same without the invoice period and the tax subtotals
C23_PassedTextsNormalized == Echoed => PassedTextsNormalized(Extracted)

---------------------------------------------------------------------------
(* C24: the discount and the charge of a line *)

\* the indicator text says true: "true" in any letter case, or "1"
SaysTrue(text) ==
    \/ text = <<"1">>
    \/ /\ Len(text) = 4
       /\ text[1] \in {"t", "T"} /\ text[2] \in {"r", "R"}
       /\ text[3] \in {"u", "U"} /\ text[4] \in {"e", "E"}

RECURSIVE SumOfCharges(_, _)
\* the sum of |amount| over the <<indicator text, amount>> whose indicator
\* says true, for isCharge, or does not, for ~isCharge
SumOfCharges(charges, isCharge) ==
    IF charges = << >> THEN 0
    ELSE (IF SaysTrue(Head(charges)[1]) = isCharge
          THEN (IF Val(Head(charges)[2]) < 0
                THEN 0 - Val(Head(charges)[2])
                ELSE Val(Head(charges)[2]))
          ELSE 0)
         + SumOfCharges(Tail(charges), isCharge)

\* a sum as the line states it: absent when it is zero
AbsentIfZero(sum) == IF sum = 0 THEN None ELSE Some(sum)

\* C24: a line's discountAmount is the sum of |amount| over its own
\* AllowanceCharge children whose indicator is not true and its chargeAmount
\* the sum over those whose indicator is "true", in any letter case, or "1";
\* each is absent and never 0 when the sum is zero, and discount_amount of
\* the DTO is null for a line without allowances.
C24_LineDiscountAndCharge ==
    /\ Parsed /\ IsSome(ParsedDoc) =>
        \A i \in DOMAIN Val(ParsedDoc).lines :
            /\ Val(ParsedDoc).lines[i].discountAmount
                = AbsentIfZero(SumOfCharges(OwnCharges(LineElements(xml.root)[i]), FALSE))
            /\ Val(ParsedDoc).lines[i].chargeAmount
                = AbsentIfZero(SumOfCharges(OwnCharges(LineElements(xml.root)[i]), TRUE))
            /\ Val(ParsedDoc).lines[i].discountAmount # Some(0)
            /\ Val(ParsedDoc).lines[i].chargeAmount # Some(0)
    /\ Echoed =>
        \A i \in DOMAIN Extracted.line_items :
            /\ Extracted.line_items[i].discount_amount
                = AbsentIfZero(SumOfCharges(OwnCharges(LineElements(xml.root)[i]), FALSE))
            /\ OwnCharges(LineElements(xml.root)[i]) = << >>
                => Extracted.line_items[i].discount_amount = None

\* a line with an allowance of 2.50 and a charge of -4 under the indicator
\* "1", above a sub-line with a charge of 21
C24_Witness ==
    /\ Parsed /\ IsSome(ParsedDoc)
    /\ Len(Val(ParsedDoc).lines) = 1
    /\ Len(OwnCharges(LineElements(xml.root)[1])) = 2
    /\ OwnCharges(LineElements(xml.root)[1])[1][1] = TxtFalse
    /\ OwnCharges(LineElements(xml.root)[1])[2][1] = TxtOne
    /\ Val(ParsedDoc).lines[1].discountAmount = Some(250)
    /\ Val(ParsedDoc).lines[1].chargeAmount = Some(400)

---------------------------------------------------------------------------
(* C25: the numbers that default to 0 *)

\* the number that a text of the documents states, in hundredths: 0 for a
\* text that does not start with a number
StatedNumber(text) ==
    IF text = TxtTwo THEN 200
    ELSE IF text = Txt10 THEN 1000
    ELSE IF text = Txt100 THEN 10000
    ELSE IF text = Txt121 THEN 12100
    ELSE IF text = Txt2p5 \o TxtAbc THEN 250
    ELSE 0

\* the number of the first <cbc:tag> child of the elements given, 0 without
NumberOrZero(parents, tag) ==
    IF parents = << >> THEN 0
    ELSE IF ChildrenNamed(parents[1], "cbc", tag) = << >> THEN 0
    ELSE StatedNumber(ChildrenNamed(parents[1], "cbc", tag)[1].text)

\* the line, or its sub-line when the line has no quantity of its own: the
\* quantity is looked for at any depth below the line
QuantityHolders(line) ==
    IF ChildrenNamed(line, "cbc", "InvoicedQuantity") # << >> THEN <<line>>
    ELSE ChildrenNamed(line, "cac", "SubInvoiceLine")

\* the four amounts of the monetary total that are always given
TotalAmounts ==
    {"lineExtensionAmount", "taxExclusiveAmount", "taxInclusiveAmount", "payableAmount"}

\* the tag of the cbc child that states an amount of the monetary total
TotalTag(field) ==
    CASE field = "lineExtensionAmount" -> "LineExtensionAmount"
      [] field = "taxExclusiveAmount" -> "TaxExclusiveAmount"
      [] field = "taxInclusiveAmount" -> "TaxInclusiveAmount"
      [] field = "payableAmount" -> "PayableAmount"

\* C25: in every parsed document each line's quantity and unitPrice are
\* numbers, 0 when no such element is found or its text is no number, and the
\* four amounts of the monetary total are numbers, all 0 when the root has
\* no LegalMonetaryTotal child.
C25_ZeroDefaults ==
    Parsed /\ IsSome(ParsedDoc) =>
        /\ \A i \in DOMAIN Val(ParsedDoc).lines :
            /\ Val(ParsedDoc).lines[i].quantity \in Int
            /\ Val(ParsedDoc).lines[i].unitPrice \in Int
            /\ Val(ParsedDoc).lines[i].quantity
                = NumberOrZero(QuantityHolders(LineElements(xml.root)[i]), "InvoicedQuantity")
            /\ Val(ParsedDoc).lines[i].unitPrice
                = NumberOrZero(ChildrenNamed(LineElements(xml.root)[i], "cac", "Price"),
                               "PriceAmount")
        /\ \A f \in TotalAmounts :
            /\ Val(ParsedDoc).monetaryTotal[f] \in Int
            /\ Val(ParsedDoc).monetaryTotal[f]
                = NumberOrZero(ChildrenNamed(xml.root, "cac", "LegalMonetaryTotal"),
                               TotalTag(f))

\* no LegalMonetaryTotal, and a line whose quantity is no number and whose
\* Price has no PriceAmount
C25_Witness ==
    /\ Parsed /\ IsSome(ParsedDoc)
    /\ ChildrenNamed(xml.root, "cac", "LegalMonetaryTotal") = << >>
    /\ Len(Val(ParsedDoc).lines) = 1
    /\ ChildrenNamed(LineElements(xml.root)[1], "cbc", "InvoicedQuantity")
        = <<Cbc("InvoicedQuantity", TxtAbc)>>
    /\ ChildrenNamed(LineElements(xml.root)[1], "cac", "Price")
        = <<Cac("Price", <<Cbc("BaseQuantity", TxtOne)>>)>>
    /\ Val(ParsedDoc).lines[1].quantity = 0
    /\ Val(ParsedDoc).lines[1].unitPrice = 0
    /\ \A f \in TotalAmounts : Val(ParsedDoc).monetaryTotal[f] = 0

---------------------------------------------------------------------------
(* C26: the raw echo *)

\* an optional text as sanitized: absent, or the text trimmed
SanitizedText(value, from) == value = None \/ (IsSome(from) /\ value = Some(trim(Val(from))))

\* the entries are the attachments of the document model without their
\* content: one for each, in order, with the five fields of the metadata
SanitizedFrom(entries, attachments) ==
    /\ Len(entries) = Len(OrEmpty(attachments))
    /\ \A i \in DOMAIN entries :
        /\ DOMAIN entries[i] = AttachmentFields
        /\ SanitizedText(entries[i].id, Some(OrEmpty(attachments)[i].id))
        /\ SanitizedText(entries[i].filename, OrEmpty(attachments)[i].filename)
        /\ SanitizedText(entries[i].mime_code, OrEmpty(attachments)[i].mimeCode)
        /\ SanitizedText(entries[i].description, OrEmpty(attachments)[i].description)
        /\ entries[i].size_bytes \in Int

\* payload is the raw echo of the document model doc
EchoOf(payload, doc) ==
    /\ DOMAIN payload = {"format", "invoice"}
    /\ payload.format = "ubl_xml"
    /\ DOMAIN payload.invoice = DOMAIN doc
    /\ \A f \in DOMAIN doc \ {"attachments"} : payload.invoice[f] = doc[f]
    /\ SanitizedFrom(payload.invoice.attachments, doc.attachments)

\* result is what parseUblInvoiceDocument makes of a normalization's result
\* for a caller that gives mimeType
WrappedFrom(result, normalized, mimeType) ==
    /\ DOMAIN result = {"rawPayload", "extracted", "providerJobId"}
    /\ DOMAIN result.rawPayload = DOMAIN normalized.rawPayload \cup {"mime_type"}
    /\ \A f \in DOMAIN normalized.rawPayload : result.rawPayload[f] = normalized.rawPayload[f]
    /\ result.rawPayload.mime_type = mimeType
    /\ result.extracted = normalized.extracted
    /\ result.providerJobId = None

\* C26: the raw echo that normalizeUblResponse returns has the format
\* "ubl_xml" and an invoice that is the document model as parsed in every
\* field but attachments, which is the sanitized list; parseUblInvoiceDocument
\* returns that echo with the caller's mime_type added and nothing else
\* changed, the same DTO, and a providerJobId that is null.
C26_RawEcho ==
    /\ [][Parsed /\ IsSome(ParsedDoc) /\ call'.op = "normalizeUblResponse" =>
            /\ ~outcome'.threw
            /\ EchoOf(Val(outcome'.value).rawPayload, Val(ParsedDoc))]_vars
    /\ [][Normalized /\ ~outcome.threw /\ call'.op = "parseUblInvoiceDocument"
            /\ call'.documentId = call.documentId =>
            /\ ~outcome'.threw
            /\ WrappedFrom(Val(outcome'.value), Val(outcome.value), call'.mimeType)]_vars
    /\ [](call.op = "parseUblInvoiceDocument" /\ ~outcome.threw =>
            /\ Val(outcome.value).providerJobId = None
            /\ Val(outcome.value).rawPayload.mime_type = call.mimeType
            /\ Val(outcome.value).rawPayload.format = "ubl_xml")

\* the echo of a document with two attachments, returned to a caller that
\* gave the type text/xml for bytes behind a byte order mark
C26_Witness ==
    /\ call.op = "parseUblInvoiceDocument" /\ ~outcome.threw
    /\ call.mimeType = "text/xml" /\ call.bom = 1
    /\ Val(outcome.value).rawPayload.mime_type = "text/xml"
    /\ Val(outcome.value).providerJobId = None
    /\ Len(RawInvoice.attachments) = 2
    /\ RawInvoice.attachments[1].filename = Some(TxtPdfName)

===========================================================================
